---- MODULE Spec2Model ----
(***************************************************************************)
(* configlette: load(schema, options) and its helpers, as a state machine. *)
(*                                                                         *)
(* Strings are sequences of one-character strings.  Literal fragments of   *)
(* the error-message templates are kept as single elements of such a       *)
(* sequence, so a message is the concatenation the template literal        *)
(* builds.  JavaScript values are records [t, s, n]: a string, a number or *)
(* undefined.  Objects used as maps are functions with a finite domain;    *)
(* objects whose key order matters (the schema, the parsed file) are       *)
(* sequences of records.                                                   *)
(***************************************************************************)
EXTENDS Integers, Sequences, FiniteSets, TLC

VARIABLES
    schema,         \* load's first argument: entries in insertion order
    options,        \* load's second argument
    rawFileValues,  \* envFile ? readEnvFile(envFile, encoding) : {} (ordered)
    guards,         \* the Environment objects: global, custom, fresh
    envSource,      \* load: which Environment object it reads through
    pc,             \* position in load
    resolved,       \* expandEnvMap: memo Map
    resolving,      \* expandEnvMap: in-progress stack
    frames,         \* activations of resolveKey inside interpolateString
    out,            \* expandEnvMap: the record being built (ordered)
    ki,             \* expandEnvMap: index of the for-of loop over Object.keys
    lastRef,        \* the last reference interpolateString replaced
    fileValues,     \* load: the file map the fields see
    ephemerals,     \* load: record of pass 1
    regulars,       \* load: record of pass 2 and 3 (the returned object)
    deriveds,       \* load: array of derived entries found in pass 2
    ctx,            \* load: the frozen snapshot of pass 3
    idx,            \* load: index of the running for loop
    coerceCalls,    \* calls load made to field.coerce
    computeCalls,   \* calls load made to d.compute
    result,         \* what load returned
    error,          \* what load threw
    guardCall,      \* the last call made on a guard from outside load
    built,          \* the Field objects made so far, each with the call that made it
    sample,         \* what the last call of generateEnvSample returned
    alone           \* the first call of load, which ran with no load before it,
                    \* and how it ended

vars == <<schema, options, rawFileValues, guards, envSource, pc, resolved,
          resolving, frames, out, ki, lastRef, fileValues, ephemerals, regulars,
          deriveds, ctx, idx, coerceCalls, computeCalls, result, error, guardCall,
          built, sample, alone>>

inputVars == <<schema, options, rawFileValues>>
expandVars == <<resolved, resolving, frames, out, ki, lastRef>>
passVars == <<ephemerals, regulars, deriveds, ctx, idx, coerceCalls, computeCalls>>

(***************************************************************************)
(* Characters and strings                                                  *)
(***************************************************************************)
UpperSeq ==
    <<"A", "B", "C", "D", "E", "F", "G", "H", "I", "J", "K", "L", "M",
      "N", "O", "P", "Q", "R", "S", "T", "U", "V", "W", "X", "Y", "Z">>
LowerSeq ==
    <<"a", "b", "c", "d", "e", "f", "g", "h", "i", "j", "k", "l", "m",
      "n", "o", "p", "q", "r", "s", "t", "u", "v", "w", "x", "y", "z">>
Upper == {UpperSeq[i] : i \in 1..Len(UpperSeq)}
Lower == {LowerSeq[i] : i \in 1..Len(LowerSeq)}
Digit == {"1", "2", "3"}
ESC == "NUL"
BACKSLASH == "\\"

IdStart == Upper \cup Lower \cup {"_"}
IdChar == IdStart \cup Digit

toUpperChar(c) ==
    IF c \in Lower THEN UpperSeq[CHOOSE i \in 1..Len(LowerSeq) : LowerSeq[i] = c] ELSE c

toUpperCase(s) == [i \in 1..Len(s) |-> toUpperChar(s[i])]

Slice(s, from, to) == IF from > to THEN <<>> ELSE SubSeq(s, from, to)

InSeq(x, s) == \E i \in 1..Len(s) : s[i] = x

IndexOf(x, s) == CHOOSE i \in 1..Len(s) : s[i] = x /\ \A j \in 1..(i - 1) : s[j] # x

RECURSIVE Join(_, _)
Join(parts, sep) ==
    IF parts = <<>> THEN <<>>
    ELSE IF Len(parts) = 1 THEN parts[1]
    ELSE parts[1] \o sep \o Join(Tail(parts), sep)

(***************************************************************************)
(* JavaScript values                                                       *)
(***************************************************************************)
Str(s) == [t |-> "str", s |-> s, n |-> 0]
Num(n) == [t |-> "num", s |-> <<>>, n |-> n]
Undef == [t |-> "undef", s |-> <<>>, n |-> 0]

\* obj[key] on an object used as a map
Get(obj, key) == IF key \in DOMAIN obj THEN obj[key] ELSE Undef

\* obj[key] = value
Put(obj, key, value) == (key :> value) @@ obj

\* a == null
IsNullish(v) == v.t = "undef"

\* thrown values: an Error with a message, or any other value
ErrorOf(msg) == [isError |-> TRUE, message |-> msg]
NonError(v) == [isError |-> FALSE, message |-> v]

\* new ConfigError(message)
ConfigError(message) == [name |-> "ConfigError", message |-> message]
NoError == [name |-> "", message |-> <<>>]

(***************************************************************************)
(* Name resolution                                                         *)
(***************************************************************************)
\* str.replace(/([A-Z])/g, '_$1')
RECURSIVE InsertUnderscores(_)
InsertUnderscores(s) ==
    IF s = <<>> THEN <<>>
    ELSE (IF Head(s) \in Upper THEN <<"_", Head(s)>> ELSE <<Head(s)>>)
         \o InsertUnderscores(Tail(s))

\* .replace(/^_/, '')
StripLeadingUnderscore(s) == IF s # <<>> /\ Head(s) = "_" THEN Tail(s) ELSE s

\* camelToScreamingSnake without the test for an upper-case key
camelToScreamingSnakeAlways(str) ==
    toUpperCase(StripLeadingUnderscore(InsertUnderscores(str)))

camelToScreamingSnake(str) ==
    IF str = toUpperCase(str) THEN str
    ELSE toUpperCase(StripLeadingUnderscore(InsertUnderscores(str)))

(***************************************************************************)
(* interpolateString: the three replace calls                              *)
(***************************************************************************)
\* s.replace(/\\\$/g, ESC)
RECURSIVE ReplaceEscapes(_)
ReplaceEscapes(s) ==
    IF s = <<>> THEN <<>>
    ELSE IF Len(s) >= 2 /\ s[1] = BACKSLASH /\ s[2] = "$"
         THEN <<ESC>> \o ReplaceEscapes(Slice(s, 3, Len(s)))
         ELSE <<Head(s)>> \o ReplaceEscapes(Tail(s))

\* text.replace(new RegExp(ESC, 'g'), '$')
RestoreEscapes(s) == [i \in 1..Len(s) |-> IF s[i] = ESC THEN "$" ELSE s[i]]

\* the end of the longest run of [A-Za-z0-9_] that starts at i
RunEnd(text, i) ==
    CHOOSE j \in i..Len(text) :
        /\ \A k \in i..j : text[k] \in IdChar
        /\ (j = Len(text) \/ text[j + 1] \notin IdChar)

\* /\$\{([A-Za-z_][A-Za-z0-9_]*)\}/ matches at i
BracedAt(text, i) ==
    /\ i + 3 <= Len(text)
    /\ text[i] = "$"
    /\ text[i + 1] = "{"
    /\ text[i + 2] \in IdStart
    /\ RunEnd(text, i + 2) + 1 <= Len(text)
    /\ text[RunEnd(text, i + 2) + 1] = "}"

\* /\$([A-Za-z_][A-Za-z0-9_]*)/ matches at i
BareAt(text, i) ==
    /\ i + 1 <= Len(text)
    /\ text[i] = "$"
    /\ text[i + 1] \in IdStart

MatchAt(pass, text, i) == IF pass = "braced" THEN BracedAt(text, i) ELSE BareAt(text, i)

MatchStarts(pass, text, pos) == {i \in pos..Len(text) : MatchAt(pass, text, i)}

HasMatch(pass, text, pos) == MatchStarts(pass, text, pos) # {}

\* the leftmost match at or after pos: where it starts and ends, its capture
\* group and its full text
NextMatch(pass, text, pos) ==
    LET i == CHOOSE m \in MatchStarts(pass, text, pos) :
                 \A o \in MatchStarts(pass, text, pos) : m <= o
        first == IF pass = "braced" THEN i + 2 ELSE i + 1
        last == RunEnd(text, first)
        end == IF pass = "braced" THEN last + 1 ELSE last
    IN [start |-> i, end |-> end, name |-> Slice(text, first, last),
        token |-> Slice(text, i, end)]

(***************************************************************************)
(* The options of load                                                     *)
(***************************************************************************)
\* process.env: the object the process-wide Environment wraps
processEnv == guards.global.map

\* const envSnapshot = env ?? process.env
envSnapshot == IF options.env.present THEN options.env.map ELSE processEnv

\* interpolateEnabled that looks only at whether the option is given
interpolateEnabledWhenGiven == options.interpolate.kind # "undefined"

interpolateEnabled ==
    IF options.interpolate.kind = "boolean" THEN options.interpolate.value
    ELSE options.interpolate.kind # "undefined"

missingPolicy ==
    IF options.interpolate.kind = "object" /\ options.interpolate.missing # ""
    THEN options.interpolate.missing ELSE "error"

lookupPolicy ==
    IF options.interpolate.kind = "object" /\ options.interpolate.lookup # ""
    THEN options.interpolate.lookup ELSE "env-first"

(***************************************************************************)
(* expandEnvMap                                                            *)
(***************************************************************************)
\* what a call does: return a string, throw, or enter resolveKey's expansion
Value(v) == [kind |-> "value", v |-> v, err |-> NoError, key |-> <<>>]
Throw(e) == [kind |-> "throw", v |-> <<>>, err |-> e, key |-> <<>>]
Call(k) == [kind |-> "call", v |-> <<>>, err |-> NoError, key |-> k]

\* Object.hasOwn(fileValues, k)
fileHas(k) == \E i \in 1..Len(rawFileValues) : rawFileValues[i].k = k

\* fileValues[key] inside expandEnvMap
RawOf(k) == rawFileValues[CHOOSE i \in 1..Len(rawFileValues) : rawFileValues[i].k = k].v

\* handleMissing that leaves a reference behind in its bare form
handleMissingBare(name, token, policy) ==
    IF policy = "leave" THEN Value(<<"$">> \o name)
    ELSE IF policy = "empty" THEN Value(<<>>)
    ELSE Throw(ConfigError(<<".env reference '">> \o name
                           \o <<"' is not defined in env or file">>))

handleMissing(name, token, policy) ==
    IF policy = "leave" THEN Value(token)
    ELSE IF policy = "empty" THEN Value(<<>>)
    ELSE Throw(ConfigError(<<".env reference '">> \o name
                           \o <<"' is not defined in env or file">>))

RECURSIVE resolveKey(_)

\* resolveVar whose file-only case falls back to the environment
resolveVarFallsBack(name, originalToken) ==
    LET envVal == Get(envSnapshot, name)
        fileValExists == fileHas(name)
        lookup(v) == IF ~IsNullish(v) THEN Value(v.s)
                     ELSE handleMissing(name, originalToken, missingPolicy)
    IN CASE lookupPolicy = "env-only" -> lookup(envVal)
         [] lookupPolicy \in {"file-only", "file-first"} ->
                IF fileValExists THEN resolveKey(name) ELSE lookup(envVal)
         [] OTHER ->
                IF ~IsNullish(envVal) THEN Value(envVal.s)
                ELSE IF fileValExists THEN resolveKey(name)
                ELSE handleMissing(name, originalToken, missingPolicy)

resolveVar(name, originalToken) ==
    LET envVal == Get(envSnapshot, name)
        fileValExists == fileHas(name)
        lookup(v) == IF ~IsNullish(v) THEN Value(v.s)
                     ELSE handleMissing(name, originalToken, missingPolicy)
    IN CASE lookupPolicy = "env-only" -> lookup(envVal)
         [] lookupPolicy = "file-only" ->
                IF fileValExists THEN resolveKey(name)
                ELSE handleMissing(name, originalToken, missingPolicy)
         [] lookupPolicy = "file-first" ->
                IF fileValExists THEN resolveKey(name) ELSE lookup(envVal)
         [] OTHER ->
                IF ~IsNullish(envVal) THEN Value(envVal.s)
                ELSE IF fileValExists THEN resolveKey(name)
                ELSE handleMissing(name, originalToken, missingPolicy)

\* resolveKey that expands only the keys the loop of expandEnvMap has come
\* to: a key referred to before that is taken as the file has it
resolveKeyInOrder(key) ==
    IF key \in DOMAIN resolved THEN Value(resolved[key])
    ELSE IF ~fileHas(key) THEN resolveVar(key, <<"$">> \o key)
    ELSE IF resolving # <<>> THEN Value(RawOf(key))
    ELSE Call(key)

\* resolveKey without the memo
resolveKeyNoMemo(key) ==
    IF ~fileHas(key) THEN resolveVar(key, <<"$">> \o key)
    ELSE IF InSeq(key, resolving)
         THEN LET cycleStart == IndexOf(key, resolving)
                  cyclePath == Join(Slice(resolving, cycleStart, Len(resolving))
                                    \o <<key>>, <<" -> ">>)
              IN Throw(ConfigError(<<"Circular reference detected in .env: ">>
                                   \o cyclePath))
         ELSE Call(key)

\* resolveKey without the test of the in-progress stack
resolveKeyUnchecked(key) ==
    IF key \in DOMAIN resolved THEN Value(resolved[key])
    ELSE IF ~fileHas(key) THEN resolveVar(key, <<"$">> \o key)
    ELSE Call(key)

\* resolveKey up to the point where it pushes the key; the expansion of the
\* key's raw value is the frame the actions below run
resolveKey(key) ==
    IF key \in DOMAIN resolved THEN Value(resolved[key])
    ELSE IF ~fileHas(key) THEN resolveVar(key, <<"$">> \o key)
    ELSE IF InSeq(key, resolving)
         THEN LET cycleStart == IndexOf(key, resolving)
                  cyclePath == Join(Slice(resolving, cycleStart, Len(resolving))
                                    \o <<key>>, <<" -> ">>)
              IN Throw(ConfigError(<<"Circular reference detected in .env: ">>
                                   \o cyclePath))
         ELSE Call(key)

\* resolving.push(key); interpolateString(raw, ...) starts: \$ replaced, the
\* braced replace about to scan
NewFrame(key) ==
    [key |-> key, pass |-> "braced", text |-> ReplaceEscapes(RawOf(key)),
     pos |-> 1, acc |-> <<>>]

Top == frames[Len(frames)]

NoRef == [status |-> "none", key |-> <<>>, name |-> <<>>, token |-> <<>>, v |-> <<>>]

\* the replace callback returned v for the match m of frame f
Substituted(f, m, v) ==
    [f EXCEPT !.acc = f.acc \o Slice(f.text, f.pos, m.start - 1) \o v,
              !.pos = m.end + 1]

\* Object.keys(fileValues) and the record expandEnvMap returns
ToMap(pairs) ==
    [k \in {pairs[i].k : i \in 1..Len(pairs)} |->
        pairs[CHOOSE i \in 1..Len(pairs) : pairs[i].k = k].v]

\* ExpandNextKey that expands only the file keys the schema looks up
ExpandNextKeyOfSchema ==
    /\ pc = "expand"
    /\ frames = <<>>
    /\ ki <= Len(rawFileValues)
    /\ LET k == rawFileValues[ki].k
           used == \E i \in 1..Len(schema) :
                      /\ schema[i].tag # "Derived"
                      /\ k = options.envPrefix
                             \o (IF schema[i].hasEnvName THEN schema[i].envName
                                 ELSE camelToScreamingSnake(schema[i].key))
           o == IF used THEN resolveKey(k) ELSE Value(rawFileValues[ki].v)
       IN CASE o.kind = "value" ->
                 /\ out' = Append(out, [k |-> k, v |-> o.v])
                 /\ ki' = ki + 1
                 /\ UNCHANGED <<pc, error, resolving, frames>>
            [] o.kind = "throw" ->
                 /\ pc' = "failed"
                 /\ error' = o.err
                 /\ UNCHANGED <<out, ki, resolving, frames>>
            [] OTHER ->
                 /\ resolving' = Append(resolving, o.key)
                 /\ frames' = Append(frames, NewFrame(o.key))
                 /\ UNCHANGED <<pc, error, out, ki>>
    /\ UNCHANGED <<inputVars, guardCall, built, sample, alone, guards, envSource, resolved, lastRef, fileValues,
                   passVars, result>>

\* out[k] = resolveKey(k) for the next k of Object.keys(fileValues)
ExpandNextKey ==
    /\ pc = "expand"
    /\ frames = <<>>
    /\ ki <= Len(rawFileValues)
    /\ LET k == rawFileValues[ki].k
           o == resolveKey(k)
       IN CASE o.kind = "value" ->
                 /\ out' = Append(out, [k |-> k, v |-> o.v])
                 /\ ki' = ki + 1
                 /\ UNCHANGED <<pc, error, resolving, frames>>
            [] o.kind = "throw" ->
                 /\ pc' = "failed"
                 /\ error' = o.err
                 /\ UNCHANGED <<out, ki, resolving, frames>>
            [] OTHER ->
                 /\ resolving' = Append(resolving, o.key)
                 /\ frames' = Append(frames, NewFrame(o.key))
                 /\ UNCHANGED <<pc, error, out, ki>>
    /\ UNCHANGED <<inputVars, guardCall, built, sample, alone, guards, envSource, resolved, lastRef, fileValues,
                   passVars, result>>

\* one call of the replace callback: resolveVar(name, token) for the next match
ScanToken ==
    /\ pc = "expand"
    /\ frames # <<>>
    /\ HasMatch(Top.pass, Top.text, Top.pos)
    /\ LET m == NextMatch(Top.pass, Top.text, Top.pos)
           o == resolveVar(m.name, m.token)
       IN CASE o.kind = "value" ->
                 /\ frames' = [frames EXCEPT ![Len(frames)] = Substituted(Top, m, o.v)]
                 /\ lastRef' = [status |-> "replaced", key |-> Top.key,
                                name |-> m.name, token |-> m.token, v |-> o.v]
                 /\ UNCHANGED <<pc, error, resolving>>
            [] o.kind = "throw" ->
                 /\ pc' = "failed"
                 /\ error' = o.err
                 /\ lastRef' = [status |-> "threw", key |-> Top.key,
                                name |-> m.name, token |-> m.token, v |-> <<>>]
                 /\ UNCHANGED <<resolving, frames>>
            [] OTHER ->
                 /\ resolving' = Append(resolving, o.key)
                 /\ frames' = Append(frames, NewFrame(o.key))
                 /\ UNCHANGED <<pc, error, lastRef>>
    /\ UNCHANGED <<inputVars, guardCall, built, sample, alone, guards, envSource, resolved, out, ki, fileValues,
                   passVars, result>>

\* the braced replace has no further match: the bare replace scans its result
EndBracedPass ==
    /\ pc = "expand"
    /\ frames # <<>>
    /\ Top.pass = "braced"
    /\ ~HasMatch(Top.pass, Top.text, Top.pos)
    /\ frames' = [frames EXCEPT ![Len(frames)] =
                    [key |-> Top.key, pass |-> "bare",
                     text |-> Top.acc \o Slice(Top.text, Top.pos, Len(Top.text)),
                     pos |-> 1, acc |-> <<>>]]
    /\ UNCHANGED <<inputVars, guardCall, built, sample, alone, guards, envSource, pc, resolved, resolving, out, ki,
                   lastRef, fileValues, passVars, result, error>>

\* FinishKey without resolving.pop()
FinishKeyKeepsStack ==
    /\ pc = "expand"
    /\ frames # <<>>
    /\ Top.pass = "bare"
    /\ ~HasMatch(Top.pass, Top.text, Top.pos)
    /\ LET value == RestoreEscapes(Top.acc \o Slice(Top.text, Top.pos, Len(Top.text)))
           n == Len(frames)
       IN /\ resolving' = resolving
          /\ resolved' = Put(resolved, Top.key, value)
          /\ IF n = 1
             THEN /\ frames' = <<>>
                  /\ out' = Append(out, [k |-> Top.key, v |-> value])
                  /\ ki' = ki + 1
                  /\ UNCHANGED lastRef
             ELSE LET caller == frames[n - 1]
                      m == NextMatch(caller.pass, caller.text, caller.pos)
                  IN /\ frames' = [Slice(frames, 1, n - 1) EXCEPT ![n - 1] =
                                      Substituted(caller, m, value)]
                     /\ lastRef' = [status |-> "replaced", key |-> caller.key,
                                    name |-> m.name, token |-> m.token, v |-> value]
                     /\ UNCHANGED <<out, ki>>
    /\ UNCHANGED <<inputVars, guardCall, built, sample, alone, guards, envSource, pc, fileValues, passVars, result,
                   error>>

\* the bare replace has no further match: interpolateString returns,
\* resolving.pop(), resolved.set(key, out), and the caller goes on
FinishKey ==
    /\ pc = "expand"
    /\ frames # <<>>
    /\ Top.pass = "bare"
    /\ ~HasMatch(Top.pass, Top.text, Top.pos)
    /\ LET value == RestoreEscapes(Top.acc \o Slice(Top.text, Top.pos, Len(Top.text)))
           n == Len(frames)
       IN /\ resolving' = Slice(resolving, 1, Len(resolving) - 1)
          /\ resolved' = Put(resolved, Top.key, value)
          /\ IF n = 1
             THEN /\ frames' = <<>>
                  /\ out' = Append(out, [k |-> Top.key, v |-> value])
                  /\ ki' = ki + 1
                  /\ UNCHANGED lastRef
             ELSE LET caller == frames[n - 1]
                      m == NextMatch(caller.pass, caller.text, caller.pos)
                  IN /\ frames' = [Slice(frames, 1, n - 1) EXCEPT ![n - 1] =
                                      Substituted(caller, m, value)]
                     /\ lastRef' = [status |-> "replaced", key |-> caller.key,
                                    name |-> m.name, token |-> m.token, v |-> value]
                     /\ UNCHANGED <<out, ki>>
    /\ UNCHANGED <<inputVars, guardCall, built, sample, alone, guards, envSource, pc, fileValues, passVars, result,
                   error>>

\* the loop over Object.keys(fileValues) is over: expandEnvMap returns out
ExpandReturn ==
    /\ pc = "expand"
    /\ frames = <<>>
    /\ ki > Len(rawFileValues)
    /\ fileValues' = ToMap(out)
    /\ pc' = "pass1"
    /\ UNCHANGED <<inputVars, guardCall, built, sample, alone, guards, envSource, expandVars, passVars, result, error>>

(***************************************************************************)
(* Coercers and derived functions                                          *)
(***************************************************************************)
DigitValue(c) == CASE c = "1" -> 1 [] c = "2" -> 2 [] c = "3" -> 3 [] OTHER -> 0

\* Number(s) is NaN (the strings of the model have no sign, point, exponent,
\* radix prefix or white space)
IsNaN(s) == \E i \in 1..Len(s) : s[i] \notin Digit

\* Number(s) otherwise; Number('') is 0
RECURSIVE NumberOf(_)
NumberOf(s) ==
    IF s = <<>> THEN 0
    ELSE 10 * NumberOf(Slice(s, 1, Len(s) - 1)) + DigitValue(s[Len(s)])

Returned(v) == [threw |-> FALSE, value |-> v, thrown |-> ErrorOf(<<>>)]
Thrown(e) == [threw |-> TRUE, value |-> Undef, thrown |-> e]

\* field.coerce(raw) for the coercers of the model: string(), number(), and a
\* custom() coercer that rejects every input by throwing a value that is not
\* an Error
Coerce(coerce, raw) ==
    CASE coerce = "string" -> Returned(Str(raw))
      [] coerce = "number" ->
            IF IsNaN(raw) THEN Thrown(ErrorOf(<<"Not a valid number">>))
            ELSE Returned(Num(NumberOf(raw)))
      [] OTHER -> Thrown(NonError(<<"rejected">>))

\* d.compute(cfg) for the derived functions of the model: cfg => cfg[arg],
\* one that throws an Error, and one that throws a value that is not an Error
Compute(compute, arg, cfg) ==
    CASE compute = "get" -> Returned(Get(cfg, arg))
      [] compute = "throwError" -> Thrown(ErrorOf(<<"boom">>))
      [] OTHER -> Thrown(NonError(<<"boom">>))

\* e instanceof Error ? ` ${e.message}` : ''
Msg(e) == IF e.isError THEN <<" ">> \o e.message ELSE <<>>

(***************************************************************************)
(* load                                                                    *)
(***************************************************************************)
\* load has not returned; load returned record
NotReturned == [returned |-> FALSE, record |-> <<>>]
ReturnedRecord(record) == [returned |-> TRUE, record |-> record]

\* no call of generateEnvSample was made; the string a call returned
NoSample == [returned |-> FALSE, text |-> <<>>]
ReturnedSample(text) == [returned |-> TRUE, text |-> text]

\* no call of load is over; a call with its options and how it ended
NoLoad == [over |-> FALSE, options |-> <<>>, returned |-> NotReturned, thrown |-> NoError]
LoadOver(opts, returned, thrown) ==
    [over |-> TRUE, options |-> opts, returned |-> returned, thrown |-> thrown]

\* class EnvironmentError
EnvironmentError(message) == [name |-> "EnvironmentError", message |-> message]

\* a call of get, set, delete or has and how it ended
NoCall ==
    [op |-> "none", guard |-> "", key |-> <<>>, returned |-> Undef, found |-> FALSE,
     thrown |-> NoError]
GuardCall(op, g, key, returned, found, thrown) ==
    [op |-> op, guard |-> g, key |-> key, returned |-> returned, found |-> found,
     thrown |-> thrown]

\* new Environment(environment)
NewEnvironment(map) == [map |-> map, hasBeenRead |-> {}]

\* EnvKey that puts the override through the case transform as well
EnvKeyTransformed(key, field) ==
    options.envPrefix
    \o camelToScreamingSnake(IF field.hasEnvName THEN field.envName ELSE key)

\* envPrefix + (field.envName ?? camelToScreamingSnake(key))
EnvKey(key, field) ==
    options.envPrefix
    \o (IF field.hasEnvName THEN field.envName ELSE camelToScreamingSnake(key))

\* fileValues[envKey]
FileValue(envKey) == IF envKey \in DOMAIN fileValues THEN Str(fileValues[envKey]) ELSE Undef

\* RawValue with the two sources the other way round
RawValueFileFirst(envKey) ==
    LET fromFile == FileValue(envKey)
    IN IF ~IsNullish(fromFile) THEN fromFile ELSE Get(guards[envSource].map, envKey)

\* RawValue that restores the escapes of an environment value
RawValueUnescaped(envKey) ==
    LET fromEnv == Get(guards[envSource].map, envKey)
    IN IF ~IsNullish(fromEnv) THEN Str(RestoreEscapes(ReplaceEscapes(fromEnv.s)))
       ELSE FileValue(envKey)

\* RawValue with || in place of ??: an empty environment value gives way to
\* the file
RawValueTruthy(envKey) ==
    LET fromEnv == Get(guards[envSource].map, envKey)
    IN IF ~IsNullish(fromEnv) /\ fromEnv.s # <<>> THEN fromEnv ELSE FileValue(envKey)

\* envSource.get(envKey) ?? fileValues[envKey]
RawValue(envKey) ==
    LET fromEnv == Get(guards[envSource].map, envKey)
    IN IF ~IsNullish(fromEnv) THEN fromEnv ELSE FileValue(envKey)

\* readField with skipMissing looked at before the default
readFieldSkipFirst(key, field) ==
    LET envKey == EnvKey(key, field)
        raw == RawValue(envKey)
    IN IF IsNullish(raw)
       THEN [called |-> FALSE] @@
            (IF options.skipMissing THEN Returned(Undef)
             ELSE IF field.hasDefault THEN Returned(field.defaultValue)
             ELSE IF field.isOptional THEN Returned(Undef)
             ELSE Thrown(ConfigError(<<"Config '">> \o envKey
                                     \o <<"' is missing and has no default.">>)))
       ELSE LET c == Coerce(field.coerce, raw.s)
            IN [called |-> TRUE] @@
               (IF c.threw
                THEN Thrown(ConfigError(<<"Config '">> \o envKey \o <<"' has value '">>
                                        \o raw.s \o <<"'.">> \o Msg(c.thrown)))
                ELSE c)

\* readField with a coercion failure of a field that has a default answered
\* by the default
readFieldRescued(key, field) ==
    LET envKey == EnvKey(key, field)
        raw == RawValue(envKey)
    IN IF IsNullish(raw)
       THEN [called |-> FALSE] @@
            (IF field.hasDefault THEN Returned(field.defaultValue)
             ELSE IF field.isOptional THEN Returned(Undef)
             ELSE IF options.skipMissing THEN Returned(Undef)
             ELSE Thrown(ConfigError(<<"Config '">> \o envKey
                                     \o <<"' is missing and has no default.">>)))
       ELSE LET c == Coerce(field.coerce, raw.s)
            IN [called |-> TRUE] @@
               (IF c.threw /\ field.hasDefault THEN Returned(field.defaultValue)
                ELSE IF c.threw
                THEN Thrown(ConfigError(<<"Config '">> \o envKey \o <<"' has value '">>
                                        \o raw.s \o <<"'.">> \o Msg(c.thrown)))
                ELSE c)

\* readField(key, field): what it returns or throws, and whether it called
\* field.coerce
readField(key, field) ==
    LET envKey == EnvKey(key, field)
        raw == RawValue(envKey)
    IN IF IsNullish(raw)
       THEN [called |-> FALSE] @@
            (IF field.hasDefault THEN Returned(field.defaultValue)
             ELSE IF field.isOptional THEN Returned(Undef)
             ELSE IF options.skipMissing THEN Returned(Undef)
             ELSE Thrown(ConfigError(<<"Config '">> \o envKey
                                     \o <<"' is missing and has no default.">>)))
       ELSE LET c == Coerce(field.coerce, raw.s)
            IN [called |-> TRUE] @@
               (IF c.threw
                THEN Thrown(ConfigError(<<"Config '">> \o envKey \o <<"' has value '">>
                                        \o raw.s \o <<"'.">> \o Msg(c.thrown)))
                ELSE c)

\* MarkRead that records only the keys the environment holds
MarkReadIfPresent(g, key) ==
    IF key \in DOMAIN g.map THEN [g EXCEPT !.hasBeenRead = @ \cup {key}] ELSE g

\* Environment.get(key): this._hasBeenRead.add(key)
MarkRead(g, key) == [g EXCEPT !.hasBeenRead = @ \cup {key}]

\* the state after readField(key, field) ran for schema[idx]; into is the
\* record the caller assigns the result to
ReadInto(into, entryKey, field) ==
    LET r == readField(entryKey, field)
        envKey == EnvKey(entryKey, field)
    IN /\ guards' = [guards EXCEPT ![envSource] = MarkRead(@, envKey)]
       /\ coerceCalls' = IF r.called
                         THEN Append(coerceCalls,
                                     [key |-> entryKey, envKey |-> envKey,
                                      raw |-> RawValue(envKey).s])
                         ELSE coerceCalls
       /\ IF r.threw
          THEN /\ pc' = "failed"
               /\ error' = r.thrown
               /\ UNCHANGED <<idx, ephemerals, regulars>>
          ELSE /\ idx' = idx + 1
               /\ IF into = "ephemerals"
                  THEN /\ ephemerals' = Put(ephemerals, entryKey, r.value)
                       /\ UNCHANGED regulars
                  ELSE /\ regulars' = Put(regulars, entryKey, r.value)
                       /\ UNCHANGED ephemerals
               /\ UNCHANGED <<pc, error>>

\* AcquireSources with one guard kept for the env maps of all calls
AcquireSourcesKeepsGuard ==
    /\ pc = "start"
    /\ IF options.environment
       THEN envSource' = "custom" /\ UNCHANGED guards
       ELSE IF options.env.present
            THEN /\ envSource' = "fresh"
                 /\ guards' = [guards EXCEPT !.fresh.map = options.env.map]
            ELSE envSource' = "global" /\ UNCHANGED guards
    /\ pc' = "interpolate"
    /\ UNCHANGED <<inputVars, guardCall, built, sample, alone, expandVars, fileValues, passVars, result, error>>

\* const envSource = customEnvironment ?? (env ? new Environment(env) : environment)
AcquireSources ==
    /\ pc = "start"
    /\ IF options.environment
       THEN envSource' = "custom" /\ UNCHANGED guards
       ELSE IF options.env.present
            THEN /\ envSource' = "fresh"
                 /\ guards' = [guards EXCEPT !.fresh = NewEnvironment(options.env.map)]
            ELSE envSource' = "global" /\ UNCHANGED guards
    /\ pc' = "interpolate"
    /\ UNCHANGED <<inputVars, guardCall, built, sample, alone, expandVars, fileValues, passVars, result, error>>

\* StartExpand with the memo kept in one object for all calls
StartExpandKeepsMemo ==
    /\ pc = "interpolate"
    /\ interpolateEnabled
    /\ pc' = "expand"
    /\ resolving' = <<>>
    /\ frames' = <<>>
    /\ out' = <<>>
    /\ ki' = 1
    /\ UNCHANGED <<inputVars, guardCall, built, sample, alone, guards, envSource, resolved,
                   lastRef, fileValues, passVars, result, error>>

\* interpolateEnabled: expandEnvMap(rawFileValues, envSnapshot, ...) is entered
StartExpand ==
    /\ pc = "interpolate"
    /\ interpolateEnabled
    /\ pc' = "expand"
    /\ resolved' = <<>>
    /\ resolving' = <<>>
    /\ frames' = <<>>
    /\ out' = <<>>
    /\ ki' = 1
    /\ UNCHANGED <<inputVars, guardCall, built, sample, alone, guards, envSource, lastRef, fileValues, passVars,
                   result, error>>

\* not interpolateEnabled: fileValues = rawFileValues
SkipExpand ==
    /\ pc = "interpolate"
    /\ ~interpolateEnabled
    /\ fileValues' = ToMap(rawFileValues)
    /\ pc' = "pass1"
    /\ UNCHANGED <<inputVars, guardCall, built, sample, alone, guards, envSource, expandVars, passVars, result, error>>

\* pass 1 reading the stored fields as well, as one pass in schema order
Pass1InSchemaOrder ==
    /\ pc = "pass1"
    /\ IF idx > Len(schema)
       THEN /\ pc' = "pass2"
            /\ idx' = 1
            /\ UNCHANGED <<guards, coerceCalls, ephemerals, regulars, error>>
       ELSE IF schema[idx].tag \in {"Ephemeral", "Field"}
            THEN ReadInto(IF schema[idx].tag = "Ephemeral" THEN "ephemerals"
                          ELSE "regulars", schema[idx].key, schema[idx])
            ELSE /\ idx' = idx + 1
                 /\ UNCHANGED <<pc, guards, coerceCalls, ephemerals, regulars, error>>
    /\ UNCHANGED <<inputVars, guardCall, built, sample, alone, envSource, expandVars, fileValues, deriveds, ctx,
                   computeCalls, result>>

\* pass 1: ephemerals
Pass1 ==
    /\ pc = "pass1"
    /\ IF idx > Len(schema)
       THEN /\ pc' = "pass2"
            /\ idx' = 1
            /\ UNCHANGED <<guards, coerceCalls, ephemerals, regulars, error>>
       ELSE IF schema[idx].tag = "Ephemeral"
            THEN ReadInto("ephemerals", schema[idx].key, schema[idx])
            ELSE /\ idx' = idx + 1
                 /\ UNCHANGED <<pc, guards, coerceCalls, ephemerals, regulars, error>>
    /\ UNCHANGED <<inputVars, guardCall, built, sample, alone, envSource, expandVars, fileValues, deriveds, ctx,
                   computeCalls, result>>

\* const ctx = Object.freeze({ ...regulars, ...ephemerals })
Snapshot == ephemerals @@ regulars

\* pass 2: regulars; when the loop is over, the snapshot of pass 3 is taken
Pass2 ==
    /\ pc = "pass2"
    /\ IF idx > Len(schema)
       THEN /\ pc' = "pass3"
            /\ idx' = 1
            /\ ctx' = Snapshot
            /\ UNCHANGED <<guards, coerceCalls, ephemerals, regulars, deriveds, error>>
       ELSE IF schema[idx].tag = "Field"
            THEN /\ ReadInto("regulars", schema[idx].key, schema[idx])
                 /\ UNCHANGED <<deriveds, ctx>>
            ELSE /\ idx' = idx + 1
                 /\ deriveds' = IF schema[idx].tag = "Derived"
                                THEN Append(deriveds, schema[idx])
                                ELSE deriveds
                 /\ UNCHANGED <<pc, guards, coerceCalls, ephemerals, regulars, ctx,
                                error>>
    /\ UNCHANGED <<inputVars, guardCall, built, sample, alone, envSource, expandVars, fileValues, computeCalls, result>>

\* ComputeArgument as the records load is still writing to
ComputeArgumentLive == ephemerals @@ regulars

\* the argument of d.compute(ctx)
ComputeArgument == ctx

\* ReturnValue with the ephemeral values copied in
ReturnValueWithEphemerals == ephemerals @@ regulars

\* return regulars
ReturnValue == regulars

\* DerivedFailure without the key
DerivedFailureUnnamed(key, thrown) ==
    ConfigError(<<"Derived config failed to compute.">> \o Msg(thrown))

\* new ConfigError(`Derived config '${key}' failed to compute.${msg}`)
DerivedFailure(key, thrown) ==
    ConfigError(<<"Derived config '">> \o key \o <<"' failed to compute.">>
                \o Msg(thrown))

\* pass 3: derived; when the loop is over, load returns regulars
Pass3 ==
    /\ pc = "pass3"
    /\ IF idx > Len(deriveds)
       THEN /\ pc' = "done"
            /\ result' = ReturnedRecord(ReturnValue)
            /\ UNCHANGED <<idx, regulars, computeCalls, error>>
       ELSE LET d == deriveds[idx]
                r == Compute(d.compute, d.arg, ComputeArgument)
            IN /\ computeCalls' = Append(computeCalls,
                                         [key |-> d.key, cfg |-> ComputeArgument])
               /\ IF r.threw
                  THEN /\ pc' = "failed"
                       /\ error' = DerivedFailure(d.key, r.thrown)
                       /\ UNCHANGED <<idx, regulars, result>>
                  ELSE /\ regulars' = Put(regulars, d.key, r.value)
                       /\ idx' = idx + 1
                       /\ UNCHANGED <<pc, error, result>>
    /\ UNCHANGED <<inputVars, guardCall, built, sample, alone, guards, envSource, expandVars, fileValues, ephemerals,
                   deriveds, ctx, coerceCalls>>

Next ==
    \/ AcquireSources
    \/ StartExpand
    \/ SkipExpand
    \/ ExpandNextKey
    \/ ScanToken
    \/ EndBracedPass
    \/ FinishKey
    \/ ExpandReturn
    \/ Pass1
    \/ Pass2
    \/ Pass3

(***************************************************************************)
(* The calls of load the model runs                                        *)
(***************************************************************************)
Absent == [t |-> "absent", s |-> <<>>, n |-> 0]

\* a Field: custom(coerce), then default(), optional(), fromEnv() or the
\* constructor; an EphemeralField holds one as inner
FieldEntry(key, tag, shape) ==
    [key |-> key, tag |-> tag, coerce |-> shape.coerce,
     hasDefault |-> shape.hasDefault, defaultValue |-> shape.defaultValue,
     isOptional |-> shape.isOptional, hasEnvName |-> shape.hasEnvName,
     envName |-> shape.envName, compute |-> "", arg |-> <<>>]

\* derived(fn)
DerivedEntry(key, compute, arg) ==
    [key |-> key, tag |-> "Derived", coerce |-> "", hasDefault |-> FALSE,
     defaultValue |-> Undef, isOptional |-> FALSE, hasEnvName |-> FALSE,
     envName |-> <<>>, compute |-> compute, arg |-> arg]

Shape(coerce, hasDefault, defaultValue, isOptional, hasEnvName, envName) ==
    [coerce |-> coerce, hasDefault |-> hasDefault, defaultValue |-> defaultValue,
     isOptional |-> isOptional, hasEnvName |-> hasEnvName, envName |-> envName]

Required(coerce) == Shape(coerce, FALSE, Undef, FALSE, FALSE, <<>>)
WithDefault(coerce, v) == Shape(coerce, TRUE, v, FALSE, FALSE, <<>>)
Optional(coerce) == Shape(coerce, FALSE, Undef, TRUE, FALSE, <<>>)

FieldShapes ==
    { Required("string"), Required("number"), Required("reject"),
      WithDefault("number", Num(7)), Optional("number"),
      Shape("string", TRUE, Str(<<"d">>), TRUE, FALSE, <<>>),
      Shape("number", FALSE, Undef, FALSE, TRUE, <<"Y">>) }

EphemeralShapes ==
    { Required("number"), WithDefault("number", Num(7)), Optional("number") }

FirstEntries ==
    {FieldEntry(<<"a">>, "Field", shape) : shape \in FieldShapes}
    \cup {FieldEntry(<<"a">>, "Ephemeral", shape) : shape \in EphemeralShapes}

SecondEntries ==
    { FieldEntry(<<"d", "B">>, "Field", Required("string")),
      FieldEntry(<<"d", "B">>, "Ephemeral", WithDefault("string", Str(<<"d">>))) }

\* the most derived entries a schema of the model declares
MaxDerived == 2

\* the derived entries of a schema: those declared before the fields and
\* those declared after them
DerivedPlacements ==
    { p \in
        { [before |-> <<DerivedEntry(<<"u">>, "get", <<"a">>)>>, after |-> <<>>],
          [before |-> <<DerivedEntry(<<"u">>, "get", <<"d", "B">>)>>,
           after |-> <<DerivedEntry(<<"x">>, "get", <<"u">>)>>],
          [before |-> <<DerivedEntry(<<"x">>, "throwError", <<>>)>>,
           after |-> <<DerivedEntry(<<"u">>, "get", <<"a">>)>>],
          [before |-> <<>>, after |-> <<DerivedEntry(<<"u">>, "throwValue", <<>>)>>],
          [before |-> <<DerivedEntry(<<"x">>, "get", <<"y">>)>>,
           after |-> <<DerivedEntry(<<"u">>, "get", <<"x">>),
                       DerivedEntry(<<"y">>, "get", <<"a">>)>>] } :
        Len(p.before) + Len(p.after) <= MaxDerived }

Schemas ==
    { p.before \o <<first, second>> \o p.after :
        first \in FirstEntries, second \in SecondEntries, p \in DerivedPlacements }

\* an object with the given keys; a key whose choice is Absent is left out
Entry(key, choice) == IF choice = Absent THEN <<>> ELSE (key :> choice)

\* the parsed file with the given keys, in this order
Line(key, choice) == IF choice = Absent THEN <<>> ELSE <<[k |-> key, v |-> choice.s]>>

\* a process environment the call must not read from when it is given its own
OtherEnv == (<<"A">> :> Str(<<"3", "3">>)) @@ (<<"D", "_", "B">> :> Str(<<"3", "3">>))

Prefixes == {<<>>, <<"P", "_">>}

\* which of options.env and options.environment the call passes
Sources == {"process", "env", "environment"}

NoInterpolate == [kind |-> "undefined", value |-> FALSE, missing |-> "", lookup |-> ""]
InterpolateTrue == [kind |-> "boolean", value |-> TRUE, missing |-> "", lookup |-> ""]
InterpolateFalse == [kind |-> "boolean", value |-> FALSE, missing |-> "", lookup |-> ""]
InterpolateWith(missing, lookup) ==
    [kind |-> "object", value |-> FALSE, missing |-> missing, lookup |-> lookup]

\* the state of the locals before load assigns them
InitLocals ==
    /\ envSource = "global"
    /\ pc = "start"
    /\ resolved = <<>>
    /\ resolving = <<>>
    /\ frames = <<>>
    /\ out = <<>>
    /\ ki = 1
    /\ lastRef = NoRef
    /\ fileValues = <<>>
    /\ ephemerals = <<>>
    /\ regulars = <<>>
    /\ deriveds = <<>>
    /\ ctx = <<>>
    /\ idx = 1
    /\ coerceCalls = <<>>
    /\ computeCalls = <<>>
    /\ result = NotReturned
    /\ error = NoError
    /\ guardCall = NoCall
    /\ built = <<>>
    /\ sample = NoSample
    /\ alone = NoLoad

\* the call load(schema, options) with map as the environment's values, passed
\* as source says
InitCall(sch, prefix, source, map, file, interpolate, skipMissing) ==
    /\ schema = sch
    /\ options = [envPrefix |-> prefix,
                  env |-> [present |-> source = "env",
                           map |-> IF source = "env" THEN map ELSE <<>>],
                  environment |-> source = "environment",
                  interpolate |-> interpolate,
                  skipMissing |-> skipMissing]
    /\ rawFileValues = file
    /\ guards = [global |-> NewEnvironment(IF source = "process" THEN map ELSE OtherEnv),
                 custom |-> NewEnvironment(IF source = "environment" THEN map ELSE <<>>),
                 fresh |-> NewEnvironment(<<>>)]
    /\ InitLocals

EnvChoicesA == {Absent, Undef, Str(<<"1">>), Str(<<"x">>)}
EnvChoicesB == {Absent, Str(<<"2">>)}
FileChoicesA == {Absent, Str(<<"3">>), Str(<<"$", "D", "_", "B">>)}
FileChoiceB == Str(<<"y">>)

Init ==
    \E sch \in Schemas, prefix \in Prefixes, source \in Sources,
       ea \in EnvChoicesA, eb \in EnvChoicesB,
       fa \in FileChoicesA,
       interpolate \in {NoInterpolate, InterpolateTrue},
       skipMissing \in BOOLEAN :
        /\ (source # "env") => prefix = <<>>
        /\ InitCall(sch, prefix, source,
                    Entry(prefix \o <<"A">>, ea) @@ Entry(prefix \o <<"D", "_", "B">>, eb)
                    @@ Entry(prefix \o <<"Y">>, eb),
                    Line(prefix \o <<"A">>, fa) \o Line(prefix \o <<"D", "_", "B">>, FileChoiceB)
                    \o Line(prefix \o <<"Y">>, fa),
                    interpolate, skipMissing)

Spec == Init /\ [][Next]_vars

(***************************************************************************)
(* The calls of load that exercise interpolation                           *)
(***************************************************************************)
\* the longest file value, in characters
MaxValueLen == 5

FileKeys == {<<"A">>, <<"B">>, <<"C">>}

\* the values a key of the file may have; U is a name the file never defines
ValuesOf(key) ==
    { v \in
        CASE key = <<"A">> ->
                { <<"$", "B">>, <<"$", "{", "B", "}", "x">>, <<"$", "{", "C", "}">>,
                  <<"x", "$", "U">>, <<"$", "A">>,
                  <<"$", "{", "B", "}", "$", "C">> }
          [] key = <<"B">> ->
                { <<"$", "C">>, <<"$", "A">>, <<"y">>, <<"$", "{", "U", "}">>,
                  <<"$", "C", "$", "{", "U", "}">> }
          [] OTHER ->
                { <<"$", "A">>, <<BACKSLASH, "$", "B">>, <<"z">>,
                  <<"$", "A", "$", "{", "B", "}">> } :
        Len(v) <= MaxValueLen }

\* the orders in which a file can define some of the keys
KeyOrders ==
    { o \in UNION {[1..n -> FileKeys] : n \in 0..Cardinality(FileKeys)} :
        \A i, j \in 1..Len(o) : i # j => o[i] # o[j] }

\* the environments of these calls: none of the names, B, and U with A set
\* to undefined
InterpEnvs ==
    { <<>>,
      (<<"B">> :> Str(<<"e">>)),
      (<<"U">> :> Str(<<"e">>)) @@ (<<"A">> :> Undef) }

MissingPolicies == {"error", "leave", "empty"}
LookupPolicies == {"env-first", "file-first", "file-only", "env-only"}

InterpSchema == <<FieldEntry(<<"A">>, "Field", Optional("string"))>>

InitInterp ==
    \E o \in KeyOrders, va \in ValuesOf(<<"A">>), vb \in ValuesOf(<<"B">>),
       vc \in ValuesOf(<<"C">>), map \in InterpEnvs,
       interpolate \in {InterpolateWith(m, l) : m \in MissingPolicies,
                                               l \in LookupPolicies}
                       \cup {NoInterpolate} :
        InitCall(InterpSchema, <<>>, "env", map,
                 [i \in 1..Len(o) |->
                    [k |-> o[i],
                     v |-> CASE o[i] = <<"A">> -> va [] o[i] = <<"B">> -> vb
                             [] OTHER -> vc]],
                 interpolate, FALSE)

SpecInterp == InitInterp /\ [][Next]_vars

(***************************************************************************)
(* The calls of load that run the resolver to its end                      *)
(***************************************************************************)
\* the values of the file: a chain of three keys, a cycle through one key
\* and through three, and a name that may be undefined
EndValuesOf(key) ==
    CASE key = <<"A">> -> { <<"$", "B">>, <<"x", "$", "U">>, <<"$", "A">> }
      [] key = <<"B">> -> { <<"$", "C">>, <<"$", "{", "U", "}">> }
      [] OTHER -> { <<"$", "A">>, <<"z">> }

EndEnvs == { <<>>, (<<"U">> :> Str(<<"e">>)) @@ (<<"A">> :> Undef) }

\* files of no key, one, two and three keys, the last in three orders
EndOrders ==
    { <<>>, << <<"A">> >>, << <<"A">>, <<"B">> >>,
      << <<"A">>, <<"B">>, <<"C">> >>, << <<"C">>, <<"B">>, <<"A">> >>,
      << <<"B">>, <<"A">>, <<"C">> >> }

InitInterpEnd ==
    \E o \in EndOrders, va \in EndValuesOf(<<"A">>), vb \in EndValuesOf(<<"B">>),
       vc \in EndValuesOf(<<"C">>), map \in EndEnvs,
       interpolate \in {InterpolateWith(m, l) : m \in MissingPolicies,
                                               l \in LookupPolicies}
                       \cup {NoInterpolate} :
        InitCall(InterpSchema, <<>>, "env", map,
                 [i \in 1..Len(o) |->
                    [k |-> o[i],
                     v |-> CASE o[i] = <<"A">> -> va [] o[i] = <<"B">> -> vb
                             [] OTHER -> vc]],
                 interpolate, FALSE)

\* load is synchronous code that runs to its end: a step that can be taken
\* is taken
SpecInterpFair == InitInterpEnd /\ [][Next]_vars /\ WF_vars(Next)

(***************************************************************************)
(* The calls of load whose environment values hold references and escapes  *)
(***************************************************************************)
TokenEnvs ==
    { (<<"A">> :> Str(<<"$", "{", "B", "}", BACKSLASH, "$", "C">>)),
      (<<"A">> :> Str(<<"$", "B">>)) @@ (<<"B">> :> Str(<<"e">>)) }

InitEnvTokens ==
    \E o \in KeyOrders, va \in ValuesOf(<<"A">>), vb \in ValuesOf(<<"B">>),
       vc \in ValuesOf(<<"C">>), map \in TokenEnvs,
       interpolate \in {InterpolateWith(m, l) : m \in MissingPolicies,
                                               l \in LookupPolicies}
                       \cup {InterpolateTrue, NoInterpolate} :
        InitCall(InterpSchema, <<>>, "env", map,
                 [i \in 1..Len(o) |->
                    [k |-> o[i],
                     v |-> CASE o[i] = <<"A">> -> va [] o[i] = <<"B">> -> vb
                             [] OTHER -> vc]],
                 interpolate, FALSE)

SpecEnvTokens == InitEnvTokens /\ [][Next]_vars

(***************************************************************************)
(* The calls of load over the forms of the interpolate option              *)
(***************************************************************************)
\* absent, false, true, {}, and objects that give one or both fields
InterpolateForms ==
    { NoInterpolate, InterpolateFalse, InterpolateTrue,
      InterpolateWith("", ""), InterpolateWith("leave", ""),
      InterpolateWith("", "file-only"), InterpolateWith("empty", "env-only") }

\* a stored string field for each key of the file
FormsSchema ==
    << FieldEntry(<<"A">>, "Field", Optional("string")),
       FieldEntry(<<"B">>, "Field", Optional("string")),
       FieldEntry(<<"C">>, "Field", Optional("string")) >>

InitForms ==
    \E o \in KeyOrders, va \in ValuesOf(<<"A">>), vb \in ValuesOf(<<"B">>),
       vc \in ValuesOf(<<"C">>), map \in InterpEnvs,
       interpolate \in InterpolateForms :
        InitCall(FormsSchema, <<>>, "env", map,
                 [i \in 1..Len(o) |->
                    [k |-> o[i],
                     v |-> CASE o[i] = <<"A">> -> va [] o[i] = <<"B">> -> vb
                             [] OTHER -> vc]],
                 interpolate, FALSE)

SpecForms == InitForms /\ [][Next]_vars

(***************************************************************************)
(* The calls of load over the forms of a schema key                        *)
(***************************************************************************)
\* the longest generated schema key, in characters
MaxKeyLen == 4

KeyAlphabet == {"a", "B", "_"}

\* every key over the alphabet up to the length bound, and the keys of the
\* documentation and the tests
KeyNames ==
    UNION {[1..n -> KeyAlphabet] : n \in 1..MaxKeyLen}
    \cup { <<"m", "y", "A", "p", "i", "K", "e", "y", "V", "a", "l", "u", "e">>,
           <<"D", "A", "T", "A", "B", "A", "S", "E", "_", "U", "R", "L">>,
           <<"d", "a", "t", "a", "b", "a", "s", "e", "U", "r", "l">>,
           <<"D", "a", "t", "a", "b", "a", "s", "e", "U", "r", "l">>,
           <<"p", "o", "r", "t">>,
           <<"m", "y", "_", "K", "e", "y">> }

\* the names given to fromEnv
OverrideNames == {<<"x", "Y">>, <<"M", "Y", "_", "D", "B">>}

NameShapes ==
    { Required("string"), Optional("string") }
    \cup {Shape("string", FALSE, Undef, FALSE, TRUE, n) : n \in OverrideNames}

\* no environment, or one that holds a value under the schema key as
\* written, under the name the key resolves to, and under the override
NameEnvs(key, prefix) ==
    { <<>>,
      (prefix \o key :> Str(<<"k">>))
      @@ (prefix \o camelToScreamingSnake(key) :> Str(<<"t">>))
      @@ [n \in {prefix \o o : o \in OverrideNames} |-> Str(<<"o">>)] }

NameFiles ==
    { [file |-> <<>>, interpolate |-> NoInterpolate],
      [file |-> <<[k |-> <<"A">>, v |-> <<"$", "{", "B", "}">>],
                  [k |-> <<"B">>, v |-> <<"y">>]>>,
       interpolate |-> InterpolateTrue],
      [file |-> <<[k |-> <<"A">>, v |-> <<"$", "B">>]>>,
       interpolate |-> NoInterpolate] }

InitNames ==
    \E key \in KeyNames, tag \in {"Field", "Ephemeral"}, shape \in NameShapes,
       prefix \in Prefixes, f \in NameFiles :
        \E map \in NameEnvs(key, prefix) :
            InitCall(<<FieldEntry(key, tag, shape)>>, prefix, "env", map,
                     f.file, f.interpolate, FALSE)

SpecNames == InitNames /\ [][Next]_vars

(***************************************************************************)
(* Two calls of load on files that hold the same keys and values in two    *)
(* orders                                                                  *)
(***************************************************************************)
\* the orders of the first file: the keys it holds, A before B before C
FirstOrders ==
    { <<>>, << <<"A">> >>, << <<"B">> >>, << <<"C">> >>,
      << <<"A">>, <<"B">> >>, << <<"A">>, <<"C">> >>, << <<"B">>, <<"C">> >>,
      << <<"A">>, <<"B">>, <<"C">> >> }

\* the other orders of a file
Reordered(file) ==
    { [i \in 1..Len(file) |-> file[p[i]]] :
        p \in { q \in [1..Len(file) -> 1..Len(file)] :
                  /\ \A i, j \in 1..Len(file) : i # j => q[i] # q[j]
                  /\ \E i \in 1..Len(file) : q[i] # i } }

\* the first call is over; load is called with the same options on the file
\* in another order.  alone keeps how the first call ended and the map its
\* expandEnvMap returned.
LoadReordered ==
    /\ pc \in {"done", "failed"}
    /\ ~alone.over
    /\ \E file \in Reordered(rawFileValues) : rawFileValues' = file
    /\ alone' = LoadOver(options, [returned |-> pc = "done", record |-> fileValues],
                         error)
    /\ envSource' = "global"
    /\ pc' = "start"
    /\ resolving' = <<>>
    /\ frames' = <<>>
    /\ out' = <<>>
    /\ ki' = 1
    /\ lastRef' = NoRef
    /\ fileValues' = <<>>
    /\ ephemerals' = <<>>
    /\ regulars' = <<>>
    /\ deriveds' = <<>>
    /\ ctx' = <<>>
    /\ idx' = 1
    /\ coerceCalls' = <<>>
    /\ computeCalls' = <<>>
    /\ result' = NotReturned
    /\ error' = NoError
    /\ guardCall' = NoCall
    /\ UNCHANGED <<schema, options, guards, built, sample, resolved>>

NextOrders == Next \/ LoadReordered

OrdersEnvs == { <<>>, (<<"U">> :> Str(<<"e">>)) @@ (<<"B">> :> Str(<<"$", "C">>)) }

InitOrders ==
    \E o \in FirstOrders, va \in ValuesOf(<<"A">>), vb \in ValuesOf(<<"B">>),
       vc \in ValuesOf(<<"C">>), map \in OrdersEnvs,
       interpolate \in {InterpolateWith(m, l) : m \in MissingPolicies,
                                               l \in LookupPolicies}
                       \cup {NoInterpolate} :
        InitCall(InterpSchema, <<>>, "env", map,
                 [i \in 1..Len(o) |->
                    [k |-> o[i],
                     v |-> CASE o[i] = <<"A">> -> va [] o[i] = <<"B">> -> vb
                             [] OTHER -> vc]],
                 interpolate, FALSE)

SpecOrders == InitOrders /\ [][NextOrders]_vars

(***************************************************************************)
(* readEnvFile, and the calls of load on a file read by it                 *)
(***************************************************************************)
WhiteSpace == {" "}

\* String.prototype.trim
RECURSIVE TrimStart(_)
TrimStart(s) ==
    IF s # <<>> /\ s[1] \in WhiteSpace THEN TrimStart(Slice(s, 2, Len(s))) ELSE s

RECURSIVE TrimEnd(_)
TrimEnd(s) ==
    IF s # <<>> /\ s[Len(s)] \in WhiteSpace THEN TrimEnd(Slice(s, 1, Len(s) - 1)) ELSE s

Trim(s) == TrimEnd(TrimStart(s))

\* line.includes('='), and the place of the first '='
Includes(s, c) == \E i \in 1..Len(s) : s[i] = c
FirstOf(s, c) == CHOOSE i \in 1..Len(s) : s[i] = c /\ \A j \in 1..(i - 1) : s[j] # c

\* value.startsWith(q) && value.endsWith(q)
Quoted(value, q) == value # <<>> /\ value[1] = q /\ value[Len(value)] = q

\* the lines of the text that give a value, as [k, v], in the order of the
\* text: the loop body of readEnvFile up to the assignment
RECURSIVE ParsedLines(_)
ParsedLines(text) ==
    IF text = <<>> THEN <<>>
    ELSE LET line == Trim(text[1])
             rest == ParsedLines(Slice(text, 2, Len(text)))
         IN IF line = <<>> \/ line[1] = "#" \/ ~Includes(line, "=") THEN rest
            ELSE LET at == FirstOf(line, "=")
                     k == Slice(line, 1, at - 1)
                     value == Trim(Slice(line, at + 1, Len(line)))
                     unquoted == IF Quoted(value, "\"") \/ Quoted(value, "'")
                                 THEN Slice(value, 2, Len(value) - 1)
                                 ELSE value
                 IN <<[k |-> Trim(k), v |-> unquoted]>> \o rest

\* values[k.trim()] = value: a key keeps the place of its first line and
\* the value of its last
RECURSIVE Assigned(_)
Assigned(lines) ==
    IF lines = <<>> THEN <<>>
    ELSE LET before == Assigned(Slice(lines, 1, Len(lines) - 1))
             last == lines[Len(lines)]
         IN IF \E i \in 1..Len(before) : before[i].k = last.k
            THEN [i \in 1..Len(before) |->
                    IF before[i].k = last.k THEN last ELSE before[i]]
            ELSE Append(before, last)

\* readEnvFile(file, encoding) for a file that does not exist or holds the
\* lines of text
readEnvFile(file) == IF ~file.exists THEN <<>> ELSE Assigned(ParsedLines(file.text))

\* the lines of the files
FileLines ==
    { <<"A", "=">>, <<"A", "=", "3">>, <<"A", "=", "\"", "\"">>,
      <<" ", "A", " ", "=", " ">>, <<"#", "A", "=", "1">>, <<"A">>,
      <<"B", "=", "$", "{", "A", "}">> }

\* the longest file, in lines
MaxLines == 2

FileTexts ==
    { [exists |-> FALSE, text |-> <<>>] }
    \cup { [exists |-> TRUE, text |-> t] :
             t \in UNION {[1..n -> FileLines] : n \in 0..MaxLines} }

\* a field a that is required, has the default d or 7, or is optional
EmptyShapes ==
    { Required("string"), WithDefault("string", Str(<<"d">>)), Optional("string"),
      Required("number"), WithDefault("number", Num(7)), Optional("number") }

\* A is not in the environment, undefined, the empty string, or 1
EmptyEnvs == {Absent, Undef, Str(<<>>), Str(<<"1">>)}

InitEmpty ==
    \E file \in FileTexts, shape \in EmptyShapes, ea \in EmptyEnvs,
       source \in Sources, interpolate \in {NoInterpolate, InterpolateTrue},
       skipMissing \in BOOLEAN :
        InitCall(<<FieldEntry(<<"a">>, "Field", shape)>>, <<>>, source,
                 Entry(<<"A">>, ea), readEnvFile(file), interpolate, skipMissing)

SpecEmpty == InitEmpty /\ [][Next]_vars

(***************************************************************************)
(* A program that calls load several times and, between the calls, the     *)
(* methods of the exported environment guard                                *)
(***************************************************************************)
\* no load is running
Idle == pc \in {"start", "done", "failed"}

GuardKeys == {<<"A">>, <<"Y">>}
SetValues == {<<"5">>}

\* delete obj[key]
Remove(obj, key) == [k \in (DOMAIN obj) \ {key} |-> obj[k]]

AlreadyRead(op, key) ==
    EnvironmentError(<<"Cannot ", op, " environment['">> \o key
                     \o <<"'], but the value has already been read.">>)

\* Environment.get(key)
GuardGet ==
    /\ Idle
    /\ \E key \in GuardKeys :
        /\ guards' = [guards EXCEPT !.global = MarkRead(@, key)]
        /\ guardCall' = GuardCall("get", "global", key, Get(guards.global.map, key),
                                  FALSE, NoError)
    /\ UNCHANGED <<inputVars, built, sample, alone, envSource, pc, expandVars, fileValues, passVars,
                   result, error>>

\* Environment.set(key, value)
GuardSet ==
    /\ Idle
    /\ \E key \in GuardKeys, value \in SetValues :
        IF key \in guards.global.hasBeenRead
        THEN /\ guardCall' = GuardCall("set", "global", key, Undef, FALSE,
                                       AlreadyRead("set", key))
             /\ UNCHANGED guards
        ELSE /\ guards' = [guards EXCEPT !.global.map = Put(@, key, Str(value))]
             /\ guardCall' = GuardCall("set", "global", key, Undef, FALSE, NoError)
    /\ UNCHANGED <<inputVars, built, sample, alone, envSource, pc, expandVars, fileValues, passVars,
                   result, error>>

\* delete without the test of the read set
GuardDeleteUnchecked ==
    /\ Idle
    /\ \E key \in GuardKeys :
        /\ guards' = [guards EXCEPT !.global.map = Remove(@, key)]
        /\ guardCall' = GuardCall("delete", "global", key, Undef, FALSE, NoError)
    /\ UNCHANGED <<inputVars, built, sample, alone, envSource, pc, expandVars, fileValues,
                   passVars, result, error>>

\* Environment.delete(key)
GuardDelete ==
    /\ Idle
    /\ \E key \in GuardKeys :
        IF key \in guards.global.hasBeenRead
        THEN /\ guardCall' = GuardCall("delete", "global", key, Undef, FALSE,
                                       AlreadyRead("delete", key))
             /\ UNCHANGED guards
        ELSE /\ guards' = [guards EXCEPT !.global.map = Remove(@, key)]
             /\ guardCall' = GuardCall("delete", "global", key, Undef, FALSE, NoError)
    /\ UNCHANGED <<inputVars, built, sample, alone, envSource, pc, expandVars, fileValues, passVars,
                   result, error>>

\* Environment.has(key)
GuardHas ==
    /\ Idle
    /\ \E key \in GuardKeys :
        guardCall' = GuardCall("has", "global", key, Undef,
                               key \in DOMAIN guards.global.map, NoError)
    /\ UNCHANGED <<inputVars, built, sample, alone, guards, envSource, pc, expandVars, fileValues,
                   passVars, result, error>>

\* the env map a call of load passes, when it passes one
CallEnv == (<<"A">> :> Str(<<"1">>))

\* the env maps of the calls: one that holds A, one that holds D_B
CallEnvs == {CallEnv, (<<"D", "_", "B">> :> Str(<<"3">>))}

\* the options a call names its environment with: none, env, environment,
\* or both env and environment
GuardSources == Sources \cup {"both"}

\* after a load returned or threw, the program calls load again: with the
\* same schema and file, reading the process environment, an env map of
\* maps, the custom guard, or the custom guard with an env map given too;
\* the locals of the call that is over are gone, and the object
\* expandEnvMap built stays as it is until a call builds its own; first
\* tells whether the program keeps how its first call ended
LoadWith(maps, first) ==
    /\ pc \in {"done", "failed"}
    /\ \E source \in GuardSources, map \in maps :
        /\ source \notin {"env", "both"} => map = CallEnv
        /\ options' = [options EXCEPT
                         !.env = [present |-> source \in {"env", "both"},
                                  map |-> IF source \in {"env", "both"}
                                          THEN map ELSE <<>>],
                         !.environment = (source \in {"environment", "both"})]
    /\ alone' = IF first /\ ~alone.over THEN LoadOver(options, result, error)
                 ELSE alone
    /\ envSource' = "global"
    /\ pc' = "start"
    /\ resolving' = <<>>
    /\ frames' = <<>>
    /\ out' = <<>>
    /\ ki' = 1
    /\ lastRef' = NoRef
    /\ fileValues' = <<>>
    /\ ephemerals' = <<>>
    /\ regulars' = <<>>
    /\ deriveds' = <<>>
    /\ ctx' = <<>>
    /\ idx' = 1
    /\ coerceCalls' = <<>>
    /\ computeCalls' = <<>>
    /\ result' = NotReturned
    /\ error' = NoError
    /\ guardCall' = NoCall
    /\ UNCHANGED <<schema, rawFileValues, guards, built, sample, resolved>>

\* a further call, with the env map CallEnv when it passes one
LoadAgain == LoadWith({CallEnv}, FALSE)

NextGuard ==
    \/ Next
    \/ GuardGet
    \/ GuardSet
    \/ GuardDelete
    \/ GuardHas
    \/ LoadAgain

\* a stored field a and an ephemeral dB; in the second schema a required
\* field y follows, which no source defines
GuardSchemas ==
    { << FieldEntry(<<"a">>, "Field", Optional("number")),
         FieldEntry(<<"d", "B">>, "Ephemeral", Required("string")) >>,
      << FieldEntry(<<"d", "B">>, "Ephemeral", Required("string")),
         FieldEntry(<<"a">>, "Field", Optional("number")),
         FieldEntry(<<"y">>, "Field", Required("number")) >> }

GuardFile ==
    << [k |-> <<"A">>, v |-> <<"$", "{", "D", "_", "B", "}">>],
       [k |-> <<"D", "_", "B">>, v |-> <<"2">>] >>

InitGuardWith(maps) ==
    \E sch \in GuardSchemas, source \in GuardSources,
       interpolate \in {NoInterpolate, InterpolateTrue}, map \in {<<>>, CallEnv},
       envMap \in maps :
        /\ source \notin {"env", "both"} => envMap = CallEnv
        /\ schema = sch
        /\ options = [envPrefix |-> <<>>,
                      env |-> [present |-> source \in {"env", "both"},
                               map |-> IF source \in {"env", "both"}
                                       THEN envMap ELSE <<>>],
                      environment |-> source \in {"environment", "both"},
                      interpolate |-> interpolate,
                      skipMissing |-> FALSE]
        /\ rawFileValues = GuardFile
        /\ guards = [global |-> NewEnvironment(map),
                     custom |-> NewEnvironment(CallEnv),
                     fresh |-> NewEnvironment(<<>>)]
        /\ InitLocals

InitGuard == InitGuardWith({CallEnv})

SpecGuard == InitGuard /\ [][NextGuard]_vars

(***************************************************************************)
(* A program that calls load several times, with different env maps, and   *)
(* keeps how its first call ended                                          *)
(***************************************************************************)
\* a further call, with one of the env maps of CallEnvs when it passes one
LoadNext == LoadWith(CallEnvs, TRUE)

NextCalls ==
    \/ Next
    \/ LoadNext

InitCalls == InitGuardWith(CallEnvs)

SpecCalls == InitCalls /\ [][NextCalls]_vars

(***************************************************************************)
(* The calls of load over the orders of a stored, an ephemeral and a       *)
(* derived entry, each of which may fail                                   *)
(***************************************************************************)
OrderEntries ==
    { FieldEntry(<<"a">>, "Field", Required("number")),
      FieldEntry(<<"d", "B">>, "Ephemeral", Required("number")) }

OrderDerived ==
    { DerivedEntry(<<"x">>, "throwError", <<>>), DerivedEntry(<<"x">>, "get", <<"a">>) }

\* the three entries in every order
OrderSchemas ==
    { sch \in [1..3 -> OrderEntries \cup OrderDerived] :
        /\ OrderEntries \subseteq {sch[i] : i \in 1..3}
        /\ \E i \in 1..3 : sch[i] \in OrderDerived }

\* a number, a string that is no number, or no value
OrderChoices == {Str(<<"1">>), Str(<<"x">>), Absent}

InitOrder ==
    \E sch \in OrderSchemas, ea \in OrderChoices, eb \in OrderChoices,
       f \in { [file |-> <<>>, interpolate |-> NoInterpolate],
               [file |-> GuardFile, interpolate |-> InterpolateTrue] } :
        InitCall(sch, <<>>, "env",
                 Entry(<<"A">>, ea) @@ Entry(<<"D", "_", "B">>, eb),
                 f.file, f.interpolate, FALSE)

SpecOrder == InitOrder /\ [][Next]_vars

(***************************************************************************)
(* Field objects made by a builder and by chains of the modifiers, and the *)
(* call of load on one of them                                             *)
(***************************************************************************)
\* custom(coerce): new Field(coerce); it has no default, is not optional and
\* has no envName
custom(coerce) == Shape(coerce, FALSE, Undef, FALSE, FALSE, <<>>)

\* default(value): new Field(this.coerce, value, false, this.envName)
default(field, value) ==
    Shape(field.coerce, TRUE, value, FALSE, field.hasEnvName, field.envName)

\* optional with the default of the receiver carried over
optionalKeepsDefault(field) ==
    Shape(field.coerce, field.hasDefault, field.defaultValue, TRUE,
          field.hasEnvName, field.envName)

\* optional(): new Field(this.coerce, SENTINEL, true, this.envName)
optional(field) ==
    Shape(field.coerce, FALSE, Undef, TRUE, field.hasEnvName, field.envName)

\* fromEnv(name): new Field(this.coerce, this.defaultValue, this.isOptional, name)
fromEnv(field, name) ==
    Shape(field.coerce, field.hasDefault, field.defaultValue, field.isOptional,
          TRUE, name)

\* the longest chain of modifier calls
MaxChain == 3

DefaultValues == {Str(<<"d">>), Undef}
EnvNames == {<<"N">>}

\* a Field object and the call that made it: the builder, or a modifier on
\* the object at index receiver
Made(field, op, receiver, value, name) ==
    [field |-> field, op |-> op, receiver |-> receiver, value |-> value,
     name |-> name]

Building == pc = "build"

CallDefault ==
    /\ Building
    /\ Len(built) <= MaxChain
    /\ \E i \in 1..Len(built), v \in DefaultValues :
        built' = Append(built, Made(default(built[i].field, v), "default", i, v, <<>>))
    /\ UNCHANGED <<inputVars, guards, guardCall, sample, alone, envSource, pc,
                   expandVars,
                   fileValues, passVars, result, error>>

CallOptional ==
    /\ Building
    /\ Len(built) <= MaxChain
    /\ \E i \in 1..Len(built) :
        built' = Append(built, Made(optional(built[i].field), "optional", i, Undef, <<>>))
    /\ UNCHANGED <<inputVars, guards, guardCall, sample, alone, envSource, pc,
                   expandVars,
                   fileValues, passVars, result, error>>

CallFromEnv ==
    /\ Building
    /\ Len(built) <= MaxChain
    /\ \E i \in 1..Len(built), name \in EnvNames :
        built' = Append(built, Made(fromEnv(built[i].field, name), "fromEnv", i,
                                    Undef, name))
    /\ UNCHANGED <<inputVars, guards, guardCall, sample, alone, envSource, pc,
                   expandVars,
                   fileValues, passVars, result, error>>

\* load({ f: field }, options) on the object made last
CallLoad ==
    /\ Building
    /\ schema' = << FieldEntry(<<"f">>, "Field", built[Len(built)].field) >>
    /\ pc' = "start"
    /\ UNCHANGED <<options, rawFileValues, guards, guardCall, built, sample, alone,
                   envSource,
                   expandVars, fileValues, passVars, result, error>>

NextFields ==
    \/ Next
    \/ CallDefault
    \/ CallOptional
    \/ CallFromEnv
    \/ CallLoad

\* the value of the variable N, when the map defines it
FieldEnvs == {<<>>, Entry(<<"N">>, Str(<<"v">>))}

InitFields ==
    \E coerce \in {"string", "number"}, map \in FieldEnvs,
       f \in { [file |-> <<>>, interpolate |-> NoInterpolate],
               [file |-> GuardFile, interpolate |-> InterpolateTrue] } :
        /\ schema = <<>>
        /\ options = [envPrefix |-> <<>>,
                      env |-> [present |-> TRUE, map |-> map],
                      environment |-> FALSE,
                      interpolate |-> f.interpolate,
                      skipMissing |-> FALSE]
        /\ rawFileValues = f.file
        /\ guards = [global |-> NewEnvironment(OtherEnv),
                     custom |-> NewEnvironment(<<>>),
                     fresh |-> NewEnvironment(<<>>)]
        /\ envSource = "global"
        /\ pc = "build"
        /\ resolved = <<>>
        /\ resolving = <<>>
        /\ frames = <<>>
        /\ out = <<>>
        /\ ki = 1
        /\ lastRef = NoRef
        /\ fileValues = <<>>
        /\ ephemerals = <<>>
        /\ regulars = <<>>
        /\ deriveds = <<>>
        /\ ctx = <<>>
        /\ idx = 1
        /\ coerceCalls = <<>>
        /\ computeCalls = <<>>
        /\ result = NotReturned
        /\ error = NoError
        /\ guardCall = NoCall
        /\ built = << Made(custom(coerce), "custom", 0, Undef, <<>>) >>
        /\ sample = NoSample
        /\ alone = NoLoad

SpecFields == InitFields /\ [][NextFields]_vars

(***************************************************************************)
(* generateEnvSample, called after a load of the same schema and prefix    *)
(***************************************************************************)
Digits == <<"0", "1", "2", "3", "4", "5", "6", "7", "8", "9">>

\* `${n}` for a number n >= 0
RECURSIVE NumberString(_)
NumberString(n) ==
    IF n < 10 THEN <<Digits[n + 1]>>
    ELSE NumberString(n \div 10) \o <<Digits[(n % 10) + 1]>>

\* `${value}`
TemplateString(v) ==
    CASE v.t = "str" -> v.s
      [] v.t = "num" -> NumberString(v.n)
      [] OTHER -> <<"u", "n", "d", "e", "f", "i", "n", "e", "d">>

\* the three lines pushed for one entry that is a Field
SampleLines(envPrefix, key, field) ==
    LET envName == envPrefix \o (IF field.hasEnvName THEN field.envName
                                 ELSE camelToScreamingSnake(key))
        description == IF field.hasDefault
                       THEN <<"(", "d", "e", "f", "a", "u", "l", "t", ":", " ">>
                            \o TemplateString(field.defaultValue) \o <<")">>
                       ELSE <<"(", "r", "e", "q", "u", "i", "r", "e", "d", ")">>
    IN << <<"#", " ">> \o description, envName \o <<"=">>, <<>> >>

\* the lines array after the loop over the entries from i on; fieldTags are
\* the tags of the entries that pass `field instanceof Field`
RECURSIVE SampleFrom(_, _, _, _)
SampleFrom(sch, envPrefix, i, fieldTags) ==
    IF i > Len(sch) THEN <<>>
    ELSE (IF sch[i].tag \in fieldTags
          THEN SampleLines(envPrefix, sch[i].key, sch[i]) ELSE <<>>)
         \o SampleFrom(sch, envPrefix, i + 1, fieldTags)

\* generateEnvSample that lists the ephemeral entries too
generateEnvSampleWithEphemerals(sch, envPrefix) ==
    Join(SampleFrom(sch, envPrefix, 1, {"Field", "Ephemeral"}), <<"\n">>)

\* return lines.join('\n')
generateEnvSample(sch, envPrefix) ==
    Join(SampleFrom(sch, envPrefix, 1, {"Field"}), <<"\n">>)

\* generateEnvSample(schema, { envPrefix }) is called once load is over
GenerateSample ==
    /\ pc \in {"done", "failed"}
    /\ ~sample.returned
    /\ sample' = ReturnedSample(generateEnvSample(schema, options.envPrefix))
    /\ UNCHANGED <<inputVars, guards, guardCall, built, alone, envSource, pc, expandVars,
                   fileValues, passVars, result, error>>

NextSample ==
    \/ Next
    \/ GenerateSample

\* the schemas of Schemas, a prefix or none, an empty env map or one that
\* holds every key, and the file with or without interpolation
InitSample ==
    \E sch \in Schemas, prefix \in Prefixes, ea \in {Absent, Str(<<"1">>)},
       f \in { [file |-> <<>>, interpolate |-> NoInterpolate],
               [file |-> GuardFile, interpolate |-> InterpolateTrue] } :
        InitCall(sch, prefix, "env",
                 Entry(prefix \o <<"A">>, ea) @@ Entry(prefix \o <<"D", "_", "B">>, ea)
                 @@ Entry(prefix \o <<"Y">>, ea),
                 f.file, f.interpolate, FALSE)

SpecSample == InitSample /\ [][NextSample]_vars

(***************************************************************************)
(* The calls of load with a required number a, whose variable A the        *)
(* environment may supply, and a file that may define A, B and C           *)
(***************************************************************************)
PreemptSchema == <<FieldEntry(<<"a">>, "Field", Required("number"))>>

\* no variable, so that a is missing or is coerced from the file value of A,
\* or A as a number
PreemptEnvs == {<<>>, (<<"A">> :> Str(<<"1">>))}

InitPreempt ==
    \E o \in KeyOrders, va \in ValuesOf(<<"A">>), vb \in ValuesOf(<<"B">>),
       vc \in ValuesOf(<<"C">>), map \in PreemptEnvs,
       interpolate \in {InterpolateWith(m, l) : m \in {"error", "leave"},
                                               l \in LookupPolicies}
                       \cup {NoInterpolate} :
        InitCall(PreemptSchema, <<>>, "env", map,
                 [i \in 1..Len(o) |->
                    [k |-> o[i],
                     v |-> CASE o[i] = <<"A">> -> va [] o[i] = <<"B">> -> vb
                             [] OTHER -> vc]],
                 interpolate, FALSE)

SpecPreempt == InitPreempt /\ [][Next]_vars

(***************************************************************************)
(* Claims                                                                  *)
(***************************************************************************)
\* load is about to call readField for schema[idx]
Reading ==
    /\ idx <= Len(schema)
    /\ \/ pc = "pass1" /\ schema[idx].tag = "Ephemeral"
       \/ pc = "pass2" /\ schema[idx].tag = "Field"

\* the external key of a stored or ephemeral entry
ExternalKey(e) ==
    options.envPrefix
    \o (IF e.hasEnvName THEN e.envName ELSE camelToScreamingSnake(e.key))

\* the environment load reads holds a value for k; that value
EnvHolds(k) ==
    /\ k \in DOMAIN guards[envSource].map
    /\ guards[envSource].map[k].t = "str"
EnvString(k) == guards[envSource].map[k].s

\* the file map the fields see holds a value for k
FileHolds(k) == k \in DOMAIN fileValues

Missing(k) == ~EnvHolds(k) /\ ~FileHolds(k)

\* the raw value found for k
RawFound(k) == IF EnvHolds(k) THEN EnvString(k) ELSE fileValues[k]

\* the record the value of entry e goes to, after the step
StoredNext(e) == IF e.tag = "Ephemeral" THEN ephemerals' ELSE regulars'

KeysTagged(tag) == {schema[i].key : i \in {j \in 1..Len(schema) : schema[j].tag = tag}}
StoredKeys == KeysTagged("Field")
EphemeralKeys == KeysTagged("Ephemeral")
DerivedKeys == KeysTagged("Derived")

EntryOf(key) == schema[CHOOSE i \in 1..Len(schema) : schema[i].key = key]

\* the text a thrown value adds to a message
Reason(thrown) == IF thrown.isError THEN <<" ">> \o thrown.message ELSE <<>>

\* C1: when the environment holds a value for the external key of the stored
\* or ephemeral entry load reads, coerce is called on that environment value
\* and what it returns is the entry's value, whatever the file holds for the
\* key, with interpolation on or off; coerce is called on the file value only
\* when the environment holds no value for the key.
C1_EnvWins ==
    [][Reading =>
        LET e == schema[idx]
            k == ExternalKey(e)
            call(raw) == [key |-> e.key, envKey |-> k, raw |-> raw]
        IN /\ EnvHolds(k) =>
                /\ coerceCalls' = Append(coerceCalls, call(EnvString(k)))
                /\ ~Coerce(e.coerce, EnvString(k)).threw =>
                      /\ e.key \in DOMAIN StoredNext(e)
                      /\ StoredNext(e)[e.key] = Coerce(e.coerce, EnvString(k)).value
           /\ (~EnvHolds(k) /\ FileHolds(k)) =>
                coerceCalls' = Append(coerceCalls, call(fileValues[k]))
    ]_vars

\* C1 witness: with interpolation on, coerce was called on the environment
\* value of a key for which the file holds another value.
C1_Witness ==
    /\ pc = "done"
    /\ interpolateEnabled
    /\ \E i \in 1..Len(coerceCalls) :
        LET c == coerceCalls[i]
        IN /\ EnvHolds(c.envKey)
           /\ FileHolds(c.envKey)
           /\ c.raw = EnvString(c.envKey)
           /\ c.raw # fileValues[c.envKey]

\* C2: when neither the environment nor the file holds a value for the
\* external key of the entry load reads, the entry's value is the default if
\* the field has one, else undefined if the field is optional or skipMissing
\* is set, else load throws a ConfigError naming the external key; coerce is
\* not called.
C2_MissingOrder ==
    [][(Reading /\ Missing(ExternalKey(schema[idx]))) =>
        LET e == schema[idx]
            k == ExternalKey(e)
        IN /\ coerceCalls' = coerceCalls
           /\ IF e.hasDefault
              THEN /\ pc' = pc
                   /\ e.key \in DOMAIN StoredNext(e)
                   /\ StoredNext(e)[e.key] = e.defaultValue
              ELSE IF e.isOptional \/ options.skipMissing
              THEN /\ pc' = pc
                   /\ e.key \in DOMAIN StoredNext(e)
                   /\ StoredNext(e)[e.key] = Undef
              ELSE /\ pc' = "failed"
                   /\ error' = ConfigError(<<"Config '">> \o k
                                           \o <<"' is missing and has no default.">>)
                   /\ e.key \notin DOMAIN StoredNext(e)
    ]_vars

\* C2 witness: load returned with skipMissing set, and a field with a default
\* and no value in the environment or the file got its default.
C2_Witness ==
    /\ result.returned
    /\ options.skipMissing
    /\ \E key \in StoredKeys :
        /\ Missing(ExternalKey(EntryOf(key)))
        /\ EntryOf(key).hasDefault
        /\ result.record[key] = EntryOf(key).defaultValue
        /\ result.record[key] # Undef
        /\ \A i \in 1..Len(coerceCalls) : coerceCalls[i].key # key

\* C3: when a raw value is found for the entry load reads and the field's
\* coerce rejects it, load throws a ConfigError whose message is made of the
\* external key, the raw value and the message of the Error coerce threw (a
\* thrown value that is no Error has no message and adds none), whether or
\* not the field has a default, is optional, or skipMissing is set.
C3_CoercionFailure ==
    [][(/\ Reading
        /\ ~Missing(ExternalKey(schema[idx]))
        /\ Coerce(schema[idx].coerce, RawFound(ExternalKey(schema[idx]))).threw) =>
        LET e == schema[idx]
            k == ExternalKey(e)
            raw == RawFound(k)
        IN /\ pc' = "failed"
           /\ error' = ConfigError(<<"Config '">> \o k \o <<"' has value '">> \o raw
                                   \o <<"'.">> \o Reason(Coerce(e.coerce, raw).thrown))
           /\ e.key \notin DOMAIN StoredNext(e)
           /\ result' = NotReturned
    ]_vars

\* C3 witness: with skipMissing set, load failed on the value "x" of a number
\* field that has a default.
C3_Witness ==
    /\ pc = "failed"
    /\ options.skipMissing
    /\ \E i \in 1..Len(schema) :
        /\ schema[i].tag \in {"Field", "Ephemeral"}
        /\ schema[i].hasDefault
        /\ schema[i].coerce = "number"
        /\ ~Missing(ExternalKey(schema[i]))
        /\ error = ConfigError(<<"Config '">> \o ExternalKey(schema[i])
                               \o <<"' has value '">> \o RawFound(ExternalKey(schema[i]))
                               \o <<"'.", " ", "Not a valid number">>)

\* C4: the keys of the record load returns are the keys of the stored
\* entries and of the derived entries of the schema: no ephemeral key, every
\* derived key, and every stored key, also one whose value is undefined.
C4_ResultKeys ==
    result.returned => DOMAIN result.record = StoredKeys \cup DerivedKeys

\* C4 witness: load returned for a schema with an ephemeral, a derived and a
\* stored entry whose value is undefined.
C4_Witness ==
    /\ result.returned
    /\ EphemeralKeys # {}
    /\ DerivedKeys # {}
    /\ \E key \in StoredKeys : result.record[key] = Undef

\* C5: every call of a derived function gets the same snapshot, whose keys
\* are the stored and the ephemeral keys of the schema and whose values are
\* the values load resolved for them; the snapshot holds no derived key,
\* before or after derived values are computed.
C5_FrozenSnapshot ==
    /\ \A i \in 1..Len(computeCalls) :
        /\ DOMAIN computeCalls[i].cfg = StoredKeys \cup EphemeralKeys
        /\ \A key \in StoredKeys : computeCalls[i].cfg[key] = regulars[key]
        /\ \A key \in EphemeralKeys : computeCalls[i].cfg[key] = ephemerals[key]
        /\ computeCalls[i].cfg = computeCalls[1].cfg
    /\ pc \in {"pass3", "done"} => DOMAIN ctx = StoredKeys \cup EphemeralKeys

\* C5 witness: load returned; a derived entry declared before the entry it
\* reads got that entry's value, and a derived entry that reads another
\* derived entry, computed before it, got undefined.
C5_Witness ==
    /\ result.returned
    /\ Len(computeCalls) = 2
    /\ \E i, j \in 1..Len(schema) :
        /\ i < j
        /\ schema[i].tag = "Derived"
        /\ schema[i].arg = schema[j].key
        /\ schema[j].tag # "Derived"
        /\ result.record[schema[i].key] # Undef
    /\ \E i, j \in 1..Len(schema) :
        /\ i < j
        /\ schema[i].tag = "Derived"
        /\ schema[j].tag = "Derived"
        /\ schema[j].arg = schema[i].key
        /\ result.record[schema[i].key] # Undef
        /\ result.record[schema[j].key] = Undef

\* the derived entries of the schema, in schema order
DerivedEntries == SelectSeq(schema, LAMBDA e : e.tag = "Derived")

\* C6: when the derived function load calls throws, load throws a
\* ConfigError whose message is made of the derived entry's schema key and
\* the message of the Error thrown (a thrown value that is no Error adds
\* none), and load returns no record.
C6_DerivedFailure ==
    /\ [][(/\ pc = "pass3"
           /\ idx <= Len(DerivedEntries)
           /\ Compute(DerivedEntries[idx].compute, DerivedEntries[idx].arg, ctx).threw) =>
           LET d == DerivedEntries[idx]
           IN /\ pc' = "failed"
              /\ error' = ConfigError(<<"Derived config '">> \o d.key
                              \o <<"' failed to compute.">>
                              \o Reason(Compute(d.compute, d.arg, ctx).thrown))
              /\ result' = NotReturned
       ]_vars
    /\ [](pc = "failed" => ~result.returned)

\* C6 witness: load failed on the derived entry x, which threw an Error.
C6_Witness ==
    /\ pc = "failed"
    /\ ~result.returned
    /\ computeCalls # <<>>
    /\ error = ConfigError(<<"Derived config '", "x", "' failed to compute.", " ", "boom">>)

\* the environment interpolation reads holds a value for name; that value
SnapshotHolds(name) ==
    /\ name \in DOMAIN envSnapshot
    /\ envSnapshot[name].t = "str"
SnapshotString(name) == envSnapshot[name].s

\* where the lookup policy table takes the value of a reference to name from
SourceOf(name) ==
    CASE lookupPolicy = "env-only" ->
            IF SnapshotHolds(name) THEN "env" ELSE "missing"
      [] lookupPolicy = "file-only" ->
            IF fileHas(name) THEN "file" ELSE "missing"
      [] lookupPolicy = "file-first" ->
            IF fileHas(name) THEN "file"
            ELSE IF SnapshotHolds(name) THEN "env" ELSE "missing"
      [] OTHER ->
            IF SnapshotHolds(name) THEN "env"
            ELSE IF fileHas(name) THEN "file" ELSE "missing"

MissingReference(name) ==
    ConfigError(<<".env reference '">> \o name \o <<"' is not defined in env or file">>)

IsCircular(e) ==
    /\ e.name = "ConfigError"
    /\ e.message # <<>>
    /\ e.message[1] = "Circular reference detected in .env: "

\* the names of the matches of a replace pass over text, from pos on
RECURSIVE NamesIn(_, _, _)
NamesIn(pass, text, pos) ==
    IF ~HasMatch(pass, text, pos) THEN {}
    ELSE {NextMatch(pass, text, pos).name}
         \cup NamesIn(pass, text, NextMatch(pass, text, pos).end + 1)

\* text with the matches of a replace pass taken out, from pos on
RECURSIVE Without(_, _, _)
Without(pass, text, pos) ==
    IF ~HasMatch(pass, text, pos) THEN Slice(text, pos, Len(text))
    ELSE Slice(text, pos, NextMatch(pass, text, pos).start - 1)
         \o Without(pass, text, NextMatch(pass, text, pos).end + 1)

\* C7: a reference whose name has no value under the lookup policy is
\* decided by the missing policy: under 'error' load throws the ConfigError
\* that names the bare name; under 'leave' the reference is replaced by its
\* own token text, $NAME or ${NAME} as written; under 'empty' by the empty
\* string.  For a file value all of whose references have no value this
\* gives the value unchanged under 'leave' and the value without its
\* references under 'empty'.
C7_MissingPolicy ==
    /\ (lastRef.status # "none" /\ SourceOf(lastRef.name) = "missing") =>
          /\ lastRef.token \in {<<"$">> \o lastRef.name,
                                <<"$", "{">> \o lastRef.name \o <<"}">>}
          /\ CASE missingPolicy = "error" ->
                    /\ lastRef.status = "threw"
                    /\ pc = "failed"
                    /\ ~result.returned
                    /\ error = MissingReference(lastRef.name)
               [] missingPolicy = "leave" ->
                    /\ lastRef.status = "replaced"
                    /\ lastRef.v = lastRef.token
               [] OTHER ->
                    /\ lastRef.status = "replaced"
                    /\ lastRef.v = <<>>
    /\ \A i \in 1..Len(rawFileValues) :
        LET key == rawFileValues[i].k
            text == ReplaceEscapes(rawFileValues[i].v)
            gone == Without("braced", text, 1)
        IN (pc = "expand" /\ key \in DOMAIN resolved) =>
            /\ (/\ missingPolicy = "leave"
                /\ \A n \in NamesIn("braced", text, 1) \cup NamesIn("bare", text, 1) :
                      SourceOf(n) = "missing")
               => resolved[key] = RestoreEscapes(text)
            /\ (/\ missingPolicy = "empty"
                /\ \A n \in NamesIn("braced", text, 1) \cup NamesIn("bare", gone, 1) :
                      SourceOf(n) = "missing")
               => resolved[key] = RestoreEscapes(Without("bare", gone, 1))

\* C7 witness: under 'leave', load returned and the file value ${U}, whose
\* name has no value, reached the fields as written.
C7_Witness ==
    /\ pc = "done"
    /\ interpolateEnabled
    /\ missingPolicy = "leave"
    /\ SourceOf(<<"U">>) = "missing"
    /\ fileHas(<<"B">>)
    /\ RawOf(<<"B">>) = <<"$", "{", "U", "}">>
    /\ fileValues[<<"B">>] = <<"$", "{", "U", "}">>

\* C8: a reference is replaced as the lookup policy table says: by the
\* environment value where the table takes it from the environment, by the
\* resolved value of the file key where it takes it from the file, by what
\* the missing policy gives otherwise; file-only takes nothing from the
\* environment and env-only nothing from the file.  A reference that threw
\* was one the table takes from the file, or one without a value under
\* missing = 'error'.
C8_LookupPolicy ==
    /\ lastRef.status = "replaced" =>
          CASE SourceOf(lastRef.name) = "env" -> lastRef.v = SnapshotString(lastRef.name)
            [] SourceOf(lastRef.name) = "file" ->
                    /\ lastRef.name \in DOMAIN resolved
                    /\ lastRef.v = resolved[lastRef.name]
            [] OTHER -> lastRef.v = (IF missingPolicy = "leave"
                                     THEN lastRef.token ELSE <<>>)
    /\ lastRef.status = "threw" =>
          \/ SourceOf(lastRef.name) = "file"
          \/ SourceOf(lastRef.name) = "missing" /\ missingPolicy = "error"
    /\ \A i \in 1..Len(rawFileValues) :
        LET key == rawFileValues[i].k
            raw == rawFileValues[i].v
            name == Slice(raw, 2, Len(raw))
        IN (/\ pc = "expand"
            /\ key \in DOMAIN resolved
            /\ NamesIn("bare", raw, 1) = {name}
            /\ raw = <<"$">> \o name) =>
              CASE SourceOf(name) = "env" -> resolved[key] = SnapshotString(name)
                [] SourceOf(name) = "file" -> resolved[key] = resolved[name]
                [] OTHER -> resolved[key] = (IF missingPolicy = "leave" THEN raw ELSE <<>>)

\* C8 witness: under file-only a reference to U, which only the
\* environment defines, was left as written, and load returned.
C8_Witness ==
    /\ pc = "done"
    /\ lookupPolicy = "file-only"
    /\ missingPolicy = "leave"
    /\ SnapshotHolds(<<"U">>)
    /\ lastRef.status = "replaced"
    /\ lastRef.name = <<"U">>
    /\ lastRef.v = lastRef.token

\* the name a file value refers to when the value is one reference and
\* nothing else
RefName(k) ==
    IF Len(RawOf(k)) >= 2 /\ RawOf(k)[2] = "{"
    THEN Slice(RawOf(k), 3, Len(RawOf(k)) - 1)
    ELSE Slice(RawOf(k), 2, Len(RawOf(k)))

SingleRef(k) ==
    /\ fileHas(k)
    /\ RefName(k) # <<>>
    /\ RawOf(k) \in {<<"$">> \o RefName(k), <<"$", "{">> \o RefName(k) \o <<"}">>}
    /\ NamesIn("braced", RawOf(k), 1) \cup NamesIn("bare", RawOf(k), 1) = {RefName(k)}

\* the value of k is one reference, and the lookup policy takes it from the file
Followed(k) == SingleRef(k) /\ SourceOf(RefName(k)) = "file"

\* from key `from` the single references written in the file lead to key
\* `to` in at most n steps
RECURSIVE WrittenLeads(_, _, _)
WrittenLeads(from, to, n) ==
    /\ SingleRef(from)
    /\ \/ RefName(from) = to
       \/ n > 1 /\ WrittenLeads(RefName(from), to, n - 1)

\* the same through references the lookup policy takes from the file
RECURSIVE FollowedLeads(_, _, _)
FollowedLeads(from, to, n) ==
    /\ Followed(from)
    /\ \/ RefName(from) = to
       \/ n > 1 /\ FollowedLeads(RefName(from), to, n - 1)

WrittenCycle ==
    \E i \in 1..Len(rawFileValues) :
        WrittenLeads(rawFileValues[i].k, rawFileValues[i].k, Len(rawFileValues))

FollowedCycle ==
    \E i \in 1..Len(rawFileValues) :
        FollowedLeads(rawFileValues[i].k, rawFileValues[i].k, Len(rawFileValues))

PastExpansion == pc \in {"pass1", "pass2", "pass3", "done", "failed"}

IsMissingReference(e) ==
    /\ e.name = "ConfigError"
    /\ e.message # <<>>
    /\ e.message[1] = ".env reference '"

\* C9 as stated, in what it says of every lookup policy and every missing
\* policy: with interpolation enabled and a cycle written in the file, load
\* fails with a ConfigError, so expansion is never left for the passes over
\* the schema.
C9_EveryPolicy ==
    (interpolateEnabled /\ WrittenCycle /\ PastExpansion) =>
        (pc = "failed" /\ error.name = "ConfigError" /\ ~result.returned)

\* C9: a reference that the lookup policy takes from the file and that
\* names a key still being resolved fails load with the circular reference
\* error, whatever the missing policy; the error is raised for such a
\* reference only, so never under env-only.  When the file holds a cycle of
\* values that are one reference each, all taken from the file, load fails:
\* with the circular reference error, or under missing = 'error' with the
\* error of a reference without a value met before the cycle.
C9_FollowedCycle ==
    /\ [][(/\ pc = "expand"
           /\ frames # <<>>
           /\ HasMatch(Top.pass, Top.text, Top.pos)
           /\ SourceOf(NextMatch(Top.pass, Top.text, Top.pos).name) = "file"
           /\ InSeq(NextMatch(Top.pass, Top.text, Top.pos).name, resolving))
          => (pc' = "failed" /\ IsCircular(error') /\ ~result'.returned)]_vars
    /\ [](IsCircular(error) =>
            /\ pc = "failed"
            /\ lookupPolicy # "env-only"
            /\ lastRef.status = "threw"
            /\ SourceOf(lastRef.name) = "file"
            /\ InSeq(lastRef.name, resolving))
    /\ []((interpolateEnabled /\ FollowedCycle /\ PastExpansion) =>
            /\ pc = "failed"
            /\ \/ IsCircular(error)
               \/ missingPolicy = "error" /\ IsMissingReference(error))

\* C9 witness: under env-first and missing = 'leave' a cycle of the file
\* whose keys the environment does not define failed load.
C9_Witness ==
    /\ pc = "failed"
    /\ IsCircular(error)
    /\ lookupPolicy = "env-first"
    /\ missingPolicy = "leave"
    /\ FollowedCycle

\* the keys met from key on by following single references, up to the
\* first key met twice, from its first occurrence on
RECURSIVE Walk(_, _)
Walk(stack, key) ==
    IF InSeq(key, stack)
    THEN Slice(stack, IndexOf(key, stack), Len(stack)) \o <<key>>
    ELSE Walk(Append(stack, key), RefName(key))

\* the names of the references written in the file value of key k
WrittenNames(k) ==
    NamesIn("braced", ReplaceEscapes(RawOf(k)), 1)
    \cup NamesIn("bare", ReplaceEscapes(RawOf(k)), 1)

\* C10: the circular reference error reads 'A -> B -> A': the keys in
\* progress from the first occurrence of the key met again, then that key
\* once more, joined by ' -> '; the path starts and ends with the same key
\* and has no other repetition; and each key of the path is a file key
\* whose value, as written in the file, holds a reference to the next key
\* of the path.  In a file whose values are one followed reference each,
\* the path is the one found by following the references from the first
\* key of the file.
C10_PathOfReferences ==
    /\ IsCircular(error) =>
        LET key == lastRef.name
            start == IndexOf(key, resolving)
            path == Slice(resolving, start, Len(resolving)) \o <<key>>
        IN /\ InSeq(key, resolving)
           /\ error.message = <<"Circular reference detected in .env: ">>
                              \o Join(path, <<" -> ">>)
           /\ path[1] = path[Len(path)]
           /\ \A i, j \in 1..(Len(path) - 1) : path[i] = path[j] => i = j
           /\ \A i \in 1..(Len(path) - 1) :
                /\ fileHas(path[i])
                /\ path[i + 1] \in WrittenNames(path[i])
    /\ (/\ pc = "failed"
        /\ interpolateEnabled
        /\ rawFileValues # <<>>
        /\ \A i \in 1..Len(rawFileValues) : Followed(rawFileValues[i].k)) =>
          error = ConfigError(<<"Circular reference detected in .env: ">>
                              \o Join(Walk(<<>>, rawFileValues[1].k), <<" -> ">>))

\* the file value of k is one escaped dollar followed by a name
EscapedOnly(k) ==
    /\ fileHas(k)
    /\ Len(RawOf(k)) >= 3
    /\ RawOf(k)[1] = BACKSLASH
    /\ RawOf(k)[2] = "$"
    /\ WrittenNames(k) = {}

\* the text an escaped-only value stands for: a dollar and the name
Literal(k) == Slice(RawOf(k), 2, Len(RawOf(k)))

\* C11: an escaped dollar is immune to expansion.  A file value \$NAME
\* resolves to the text $NAME; a file value that is one reference to such a
\* key, taken from the file, resolves to the same text $NAME, whether the
\* reference is written $KEY or ${KEY}; and while that referring value is
\* expanded no name but KEY is looked up.
C11_EscapeImmune ==
    /\ \A i \in 1..Len(rawFileValues) :
        LET key == rawFileValues[i].k
        IN (key \in DOMAIN resolved) =>
            /\ EscapedOnly(key) => resolved[key] = Literal(key)
            /\ (Followed(key) /\ EscapedOnly(RefName(key))) =>
                  resolved[key] = Literal(RefName(key))
    /\ (/\ lastRef.status # "none"
        /\ Followed(lastRef.key)
        /\ EscapedOnly(RefName(lastRef.key))) =>
          lastRef.name = RefName(lastRef.key)

\* the string the caller's env map holds for k
PassedString(k) == options.env.map[k].s

\* C12: with interpolation enabled, when the environment holds a value for
\* the external key of the entry load reads, coerce is called on the string
\* the caller's env map holds, references and escapes unexpanded, and what
\* coerce returns is the entry's value, whatever the file holds; the env map
\* itself is never changed.
C12_EnvVerbatim ==
    /\ [][(Reading /\ interpolateEnabled /\ EnvHolds(ExternalKey(schema[idx]))) =>
            LET e == schema[idx]
                k == ExternalKey(e)
            IN /\ k \in DOMAIN options.env.map
               /\ coerceCalls' = Append(coerceCalls,
                                        [key |-> e.key, envKey |-> k,
                                         raw |-> PassedString(k)])
               /\ ~Coerce(e.coerce, PassedString(k)).threw =>
                     StoredNext(e)[e.key] = Coerce(e.coerce, PassedString(k)).value
          ]_vars
    /\ [](pc # "start" => guards.fresh.map = options.env.map)
    /\ []((pc = "done" /\ interpolateEnabled /\ EnvHolds(<<"A">>)) =>
            result.record[<<"A">>] = Str(PassedString(<<"A">>)))

\* C12 witness: with interpolation enabled and a file that defines A, B and
\* C, load returned A as the environment string ${B}\$C, unexpanded.
C12_Witness ==
    /\ pc = "done"
    /\ interpolateEnabled
    /\ fileHas(<<"A">>) /\ fileHas(<<"B">>) /\ fileHas(<<"C">>)
    /\ result.returned
    /\ result.record[<<"A">>] = Str(<<"$", "{", "B", "}", BACKSLASH, "$", "C">>)

\* the interpolate option is true or an options object
OptionOn ==
    \/ options.interpolate.kind = "boolean" /\ options.interpolate.value
    \/ options.interpolate.kind = "object"

\* C13: the file values are expanded exactly when the interpolate option is
\* true or an options object: then every key of the file is resolved before
\* the fields are read, an object without `missing` fails load on a
\* reference without a value, and an object without `lookup` takes a
\* reference from the environment first.  When the option is absent or
\* false no reference is resolved, the fields see the file map as parsed,
\* coerce is called on the file value as written, and load does not fail
\* with a reference or cycle error.
C13_InterpolateOption ==
    /\ (pc = "expand" \/ lastRef.status # "none" \/ resolved # <<>>) => OptionOn
    /\ (OptionOn /\ pc \in {"pass1", "pass2", "pass3", "done"}) =>
          /\ DOMAIN resolved = {rawFileValues[i].k : i \in 1..Len(rawFileValues)}
          /\ fileValues = resolved
    /\ (/\ options.interpolate.kind \in {"boolean", "object"}
        /\ options.interpolate.missing = ""
        /\ lastRef.status # "none"
        /\ ~SnapshotHolds(lastRef.name)
        /\ ~fileHas(lastRef.name)) =>
          /\ pc = "failed"
          /\ error = MissingReference(lastRef.name)
    /\ (/\ options.interpolate.kind \in {"boolean", "object"}
        /\ options.interpolate.lookup = ""
        /\ lastRef.status = "replaced"
        /\ SnapshotHolds(lastRef.name)) =>
          lastRef.v = SnapshotString(lastRef.name)
    /\ (~OptionOn /\ pc \in {"pass1", "pass2", "pass3", "done", "failed"}) =>
          /\ pc # "failed"
          /\ error = NoError
          /\ DOMAIN fileValues = {rawFileValues[i].k : i \in 1..Len(rawFileValues)}
          /\ \A i \in 1..Len(rawFileValues) :
                fileValues[rawFileValues[i].k] = rawFileValues[i].v
          /\ \A i \in 1..Len(coerceCalls) :
                ~EnvHolds(coerceCalls[i].envKey) =>
                    /\ fileHas(coerceCalls[i].envKey)
                    /\ coerceCalls[i].raw = RawOf(coerceCalls[i].envKey)
    /\ (~OptionOn /\ pc = "done") =>
          \A i \in 1..Len(rawFileValues) :
              ~EnvHolds(rawFileValues[i].k) =>
                  result.record[rawFileValues[i].k] = Str(rawFileValues[i].v)

\* C13 witness: with interpolate: false, load returned the file values
\* ${C} of A and \$B of C as written.
C13_Witness ==
    /\ pc = "done"
    /\ options.interpolate = InterpolateFalse
    /\ fileHas(<<"A">>) /\ fileHas(<<"C">>)
    /\ result.record[<<"A">>] = Str(<<"$", "{", "C", "}">>)
    /\ result.record[<<"C">>] = Str(<<BACKSLASH, "$", "B">>)

\* the key has no lower-case letter
AllUpper(key) == \A i \in 1..Len(key) : key[i] \notin Lower

\* the keys a load that read its one entry asked the environment for
KeysRead == guards[envSource].hasBeenRead

\* load has read the one entry of the schema
EntryRead == pc \in {"pass3", "done", "failed"}

\* C14: the case transform returns its own output unchanged, returns a key
\* without lower-case letters (DATABASE_URL) unchanged, and maps
\* myApiKeyValue to MY_API_KEY_VALUE; the key load asks the environment for,
\* for an entry without an override, is the prefix and the transformed key.
C14_Idempotent ==
    LET x == schema[1].key
        y == camelToScreamingSnake(x)
    IN /\ camelToScreamingSnake(y) = y
       /\ AllUpper(y)
       /\ AllUpper(x) => y = x
       /\ (x = <<"m", "y", "A", "p", "i", "K", "e", "y", "V", "a", "l", "u", "e">>) =>
             y = <<"M", "Y", "_", "A", "P", "I", "_", "K", "E", "Y", "_",
                   "V", "A", "L", "U", "E">>
       /\ (x = <<"D", "A", "T", "A", "B", "A", "S", "E", "_", "U", "R", "L">>) =>
             y = x
       /\ (EntryRead /\ ~schema[1].hasEnvName) =>
             KeysRead = {options.envPrefix \o y}

\* C14 witness: load read the entry DATABASE_URL under that very name and
\* returned the environment's value for it.
C14_Witness ==
    /\ pc = "done"
    /\ schema[1].key = <<"D", "A", "T", "A", "B", "A", "S", "E", "_", "U", "R", "L">>
    /\ schema[1].tag = "Field"
    /\ ~schema[1].hasEnvName
    /\ KeysRead = {options.envPrefix \o schema[1].key}
    /\ result.record[schema[1].key] \in {Str(<<"k">>), Str(<<"t">>)}

\* key with a separator before each upper-case letter from position i on
\* that is not already preceded by one
RECURSIVE SeparatedFrom(_, _)
SeparatedFrom(key, i) ==
    IF i > Len(key) THEN <<>>
    ELSE (IF key[i] \in Upper /\ (i = 1 \/ key[i - 1] # "_")
          THEN <<"_", key[i]>> ELSE <<key[i]>>)
         \o SeparatedFrom(key, i + 1)

\* C15: for an entry without an override whose key is not entirely
\* upper-case, the key load asks the environment for is the prefix followed
\* by the schema key with a `_` before each upper-case letter that is not
\* already preceded by a `_`, a leading `_` stripped, and all of it
\* upper-cased.
C15_SeparatorOnce ==
    (EntryRead /\ ~schema[1].hasEnvName /\ ~AllUpper(schema[1].key)) =>
        KeysRead = {options.envPrefix
                    \o toUpperCase(StripLeadingUnderscore(SeparatedFrom(schema[1].key, 1)))}

\* C16: for an entry with a fromEnv(name) override, stored or ephemeral, the
\* one key load asks the environment for is the prefix followed by name as
\* given; when the environment holds a value there, coerce is called on it
\* and its result is the entry's value, although the environment also holds
\* values under the schema key and under its transformed form; when it
\* holds none, load fails naming prefix + name.
C16_Override ==
    (EntryRead /\ schema[1].hasEnvName) =>
        LET e == schema[1]
            k == options.envPrefix \o e.envName
            into == IF e.tag = "Ephemeral" THEN ephemerals ELSE regulars
        IN /\ KeysRead = {k}
           /\ IF k \in DOMAIN options.env.map
              THEN /\ coerceCalls = <<[key |-> e.key, envKey |-> k,
                                       raw |-> options.env.map[k].s]>>
                   /\ pc # "failed"
                   /\ into[e.key] = options.env.map[k]
                   /\ options.env.map[k] = Str(<<"o">>)
              ELSE /\ coerceCalls = <<>>
                   /\ pc = "failed"
                   /\ error = ConfigError(<<"Config '">> \o k
                                          \o <<"' is missing and has no default.">>)

\* C16 witness: an ephemeral entry with fromEnv('xY') and the prefix P_ was
\* read from P_xY, in an environment that also defines the schema key.
C16_Witness ==
    /\ pc = "done"
    /\ schema[1].tag = "Ephemeral"
    /\ schema[1].hasEnvName
    /\ schema[1].envName = <<"x", "Y">>
    /\ options.envPrefix = <<"P", "_">>
    /\ (options.envPrefix \o schema[1].key) \in DOMAIN options.env.map
    /\ KeysRead = {<<"P", "_", "x", "Y">>}
    /\ ephemerals[schema[1].key] = Str(<<"o">>)

\* the step is a call of op on the exported guard
Calls(op) == guardCall' # guardCall /\ guardCall'.op = op

\* the step is load's call of get on the exported guard, from readField
LoadGets == Reading /\ envSource = "global" /\ guards' # guards

\* C17: on a guard, get(k) returns the guard's value of k and adds k to the
\* read set, whether or not the guard holds k; the read set changes in no
\* other way.  set(k) and delete(k) throw EnvironmentError exactly when k
\* is in the read set, and then change nothing; otherwise set gives k the
\* value, delete removes k, and neither touches another key or the read
\* set.  has(k) tells whether the guard holds k and changes nothing.
C17_GuardRefusesAfterRead ==
    /\ [][Calls("get") =>
            /\ guardCall'.returned = Get(guards.global.map, guardCall'.key)
            /\ guardCall'.thrown = NoError
            /\ guards'.global.map = guards.global.map
            /\ guards'.global.hasBeenRead
                 = guards.global.hasBeenRead \cup {guardCall'.key}]_vars
    /\ [][(Calls("set") \/ Calls("delete")) =>
            LET k == guardCall'.key
            IN /\ (guardCall'.thrown # NoError) <=> (k \in guards.global.hasBeenRead)
               /\ guards'.global.hasBeenRead = guards.global.hasBeenRead
               /\ \A j \in (DOMAIN guards.global.map) \ {k} :
                     /\ j \in DOMAIN guards'.global.map
                     /\ guards'.global.map[j] = guards.global.map[j]
               /\ IF guardCall'.thrown # NoError
                  THEN /\ guardCall'.thrown.name = "EnvironmentError"
                       /\ guards' = guards
                  ELSE IF guardCall'.op = "set"
                  THEN /\ k \in DOMAIN guards'.global.map
                       /\ guards'.global.map[k].t = "str"
                       /\ guards'.global.map[k].s \in SetValues
                  ELSE k \notin DOMAIN guards'.global.map]_vars
    /\ [][Calls("has") =>
            /\ guards' = guards
            /\ guardCall'.found <=> (guardCall'.key \in DOMAIN guards.global.map)]_vars
    /\ [][(guards'.global.hasBeenRead # guards.global.hasBeenRead) =>
            (Calls("get") \/ LoadGets)]_vars
    /\ [](guardCall.op = "get" =>
            guardCall.returned = Get(guards.global.map, guardCall.key))

\* C17 witness: set(Y) was refused on a guard that never held Y, after a
\* get(Y) that returned undefined.
C17_Witness ==
    /\ guardCall.op = "set"
    /\ guardCall.key = <<"Y">>
    /\ guardCall.thrown = AlreadyRead("set", <<"Y">>)
    /\ <<"Y">> \notin DOMAIN guards.global.map
    /\ <<"Y">> \in guards.global.hasBeenRead
    /\ pc = "start"

\* entry e fails when load reaches it; the error load then throws
WouldFail(e) ==
    IF e.tag = "Derived" THEN Compute(e.compute, e.arg, Snapshot).threw
    ELSE readField(e.key, e).threw
FailureOf(e) ==
    IF e.tag = "Derived"
    THEN DerivedFailure(e.key, Compute(e.compute, e.arg, Snapshot).thrown)
    ELSE readField(e.key, e).thrown

Failing == {i \in 1..Len(schema) : WouldFail(schema[i])}

\* the pass load reads an entry in
PassOf(e) == CASE e.tag = "Ephemeral" -> 1 [] e.tag = "Field" -> 2 [] OTHER -> 3

\* entry i is read before entry j
ReadBefore(i, j) ==
    \/ PassOf(schema[i]) < PassOf(schema[j])
    \/ PassOf(schema[i]) = PassOf(schema[j]) /\ i < j

RECURSIVE Governing(_)
Governing(j) ==
    IF built[j].op \in {"default", "optional"} THEN j
    ELSE IF built[j].op = "custom" THEN 0
    ELSE Governing(built[j].receiver)

\* the name given by the fromEnv() applied last in the chain, or the
\* schema key f in upper case
RECURSIVE SourceName(_)
SourceName(j) ==
    IF built[j].op = "fromEnv" THEN built[j].name
    ELSE IF built[j].op = "custom" THEN <<"F">>
    ELSE SourceName(built[j].receiver)

\* neither the env map nor the file defines the name
NoValue(name) ==
    /\ name \notin DOMAIN options.env.map
    /\ \A i \in 1..Len(rawFileValues) : rawFileValues[i].k # name

\* the objects of built that load was called on
Loaded == {j \in 1..Len(built) :
            /\ Len(schema) = 1
            /\ schema[1] = FieldEntry(<<"f">>, "Field", built[j].field)}

\* what each modifier call made, given the object it was called on
MadeAsStated(j) ==
    LET m == built[j]
        r == built[m.receiver].field
    IN CASE m.op = "default" ->
              /\ m.field.hasDefault /\ m.field.defaultValue = m.value
              /\ ~m.field.isOptional
              /\ m.field.coerce = r.coerce
              /\ m.field.hasEnvName = r.hasEnvName /\ m.field.envName = r.envName
         [] m.op = "optional" ->
              /\ m.field.isOptional
              /\ ~m.field.hasDefault
              /\ m.field.coerce = r.coerce
              /\ m.field.hasEnvName = r.hasEnvName /\ m.field.envName = r.envName
         [] m.op = "fromEnv" ->
              /\ m.field.hasEnvName /\ m.field.envName = m.name
              /\ m.field.coerce = r.coerce
              /\ m.field.hasDefault = r.hasDefault
              /\ m.field.defaultValue = r.defaultValue
              /\ m.field.isOptional = r.isOptional
         [] OTHER -> ~m.field.hasDefault /\ ~m.field.isOptional

\* how load ends on the object at index j when its variable has no value
MissingOutcome(j) ==
    LET g == Governing(j)
    IN IF g = 0
       THEN /\ pc = "failed"
            /\ error = ConfigError(<<"Config '">> \o SourceName(j)
                                   \o <<"' is missing and has no default.">>)
       ELSE /\ pc = "done"
            /\ result.returned
            /\ result.record[<<"f">>] =
                 (IF built[g].op = "default" THEN built[g].value ELSE Undef)

\* C19: The Field modifiers never change the object they are called on: a
\* call adds an object and leaves every object made before as it was.
\* default(v) makes an object with the default v that is not optional,
\* optional() one that is optional and has no default, fromEnv(n) one that
\* differs from its receiver in the source name only. So no object made by a
\* chain on a builder-made Field both has a default and is optional, and
\* when load ends on such an object whose variable has no value, the last
\* default() or optional() of the chain decides: the default value, undefined,
\* or, with neither in the chain, the missing-value error.
C19_Modifiers ==
    /\ [][built' # built =>
            /\ Len(built') = Len(built) + 1
            /\ SubSeq(built', 1, Len(built)) = built]_vars
    /\ [](\A j \in 1..Len(built) :
            /\ MadeAsStated(j)
            /\ ~(built[j].field.hasDefault /\ built[j].field.isOptional)
            /\ (j \in Loaded /\ pc \in {"done", "failed"}
                /\ NoValue(SourceName(j))) => MissingOutcome(j))

\* C19 witness: load returned undefined for a field made by
\* custom(c).default(v).fromEnv('N').optional(), whose variable N has no value.
C19_Witness ==
    /\ pc = "done"
    /\ Len(built) = 4
    /\ built[2].op = "default" /\ built[2].receiver = 1
    /\ built[2].value = Str(<<"d">>)
    /\ built[3].op = "fromEnv" /\ built[3].receiver = 2
    /\ built[4].op = "optional" /\ built[4].receiver = 3
    /\ schema[1] = FieldEntry(<<"f">>, "Field", built[4].field)
    /\ schema[1].hasEnvName
    /\ NoValue(<<"N">>)
    /\ result.returned
    /\ result.record[<<"f">>] = Undef

\* the step is a step of load
LoadStep ==
    /\ pc \notin {"done", "failed"}
    /\ pc = "start" => pc' = "interpolate"

\* the step is the one in which load settles the guard it reads
Acquires == pc = "start" /\ pc' = "interpolate"

\* the external keys of the ephemeral and stored entries of the schema
LookupKeys ==
    {ExternalKey(schema[i]) : i \in {j \in 1..Len(schema) : schema[j].tag # "Derived"}}

\* what a step of load does to the guards: no value of a guard changes, and
\* the read set of a guard changes only when the step looks an entry up, by
\* the external key of that entry, in the guard load reads
LoadFrame ==
    LoadStep =>
        \A g \in {"global", "custom", "fresh"} :
            /\ (g # "fresh" \/ ~Acquires) =>
                 /\ guards'[g].map = guards[g].map
                 /\ guards'[g].hasBeenRead =
                      IF Reading /\ g = envSource
                      THEN guards[g].hasBeenRead \cup {ExternalKey(schema[idx])}
                      ELSE guards[g].hasBeenRead
            /\ (g = "fresh" /\ Acquires /\ guards'[g] # guards[g]) =>
                 envSource' = "fresh"

\* over all steps the read sets of the shared guards only grow, and set and
\* delete on a key of the read set are refused and change nothing
Accumulates ==
    /\ \A g \in {"global", "custom"} :
          guards[g].hasBeenRead \subseteq guards'[g].hasBeenRead
    /\ ((Calls("set") \/ Calls("delete"))
        /\ guardCall'.key \in guards.global.hasBeenRead) =>
          /\ guardCall'.thrown.name = "EnvironmentError"
          /\ guards' = guards

\* when load is through its lookups, the guard it read holds the external
\* key of every ephemeral and stored entry in its read set, and a guard made
\* for this load holds no other
AllLookedUp ==
    pc \in {"pass3", "done"} =>
        /\ LookupKeys \subseteq guards[envSource].hasBeenRead
        /\ envSource = "fresh" => guards.fresh.hasBeenRead = LookupKeys

\* the guard load reads is a new one over the env map, with an empty read
\* set, and the shared guards are as before
GetsFreshGuard ==
    /\ envSource' = "fresh"
    /\ guards'.fresh = [map |-> options.env.map, hasBeenRead |-> {}]
    /\ guards'.global = guards.global
    /\ guards'.custom = guards.custom

\* C20 as stated: a load changes no value of a guard; its only effect on a
\* guard is to add to the read set of the guard it reads the external key of
\* each ephemeral and stored entry it looks up, also when the key is absent
\* and when the lookup fails; the read sets of shared guards accumulate over
\* the loads, and a later set or delete on a key read is refused; and every
\* load given an env map reads a new guard with an empty read set.
C20_FreshForEveryMap ==
    /\ [][LoadFrame]_vars
    /\ [][Accumulates]_vars
    /\ []AllLookedUp
    /\ [][(Acquires /\ options.env.present) => GetsFreshGuard]_vars

\* C20 amended: as C20, with the last part for a load that is given an env
\* map and no environment option; a load given the environment option reads
\* that guard, whether or not an env map is given too.
C20_FreshWithoutOverride ==
    /\ [][LoadFrame]_vars
    /\ [][Accumulates]_vars
    /\ []AllLookedUp
    /\ [][(Acquires /\ options.env.present /\ ~options.environment)
            => GetsFreshGuard]_vars
    /\ [][(Acquires /\ options.environment) =>
            envSource' = "custom" /\ guards' = guards]_vars

\* C20 witness: a second load given an env map failed on the missing Y after
\* it looked up D_B and A in its own guard, while the exported guard still
\* holds the keys an earlier load read from it, and set(A) on it was refused.
C20_Witness ==
    /\ pc = "failed"
    /\ envSource = "fresh"
    /\ options.env.present /\ ~options.environment
    /\ guards.fresh.hasBeenRead = {<<"D", "_", "B">>, <<"A">>, <<"Y">>}
    /\ <<"Y">> \notin DOMAIN guards.fresh.map
    /\ {<<"D", "_", "B">>, <<"A">>} \subseteq guards.global.hasBeenRead
    /\ guardCall.op = "set"
    /\ guardCall.key = <<"A">>
    /\ guardCall.thrown = AlreadyRead("set", <<"A">>)

\* the stored Fields of the schema, in schema order
IsStored(e) == e.tag = "Field"
StoredFields == SelectSeq(schema, IsStored)

\* the comment line of a stored Field
CommentLine(e) ==
    IF e.hasDefault
    THEN <<"#", " ", "(", "d", "e", "f", "a", "u", "l", "t", ":", " ">>
         \o TemplateString(e.defaultValue) \o <<")">>
    ELSE <<"#", " ", "(", "r", "e", "q", "u", "i", "r", "e", "d", ")">>

\* for each of the entries es a comment line and a `KEY=` line, the entries
\* set apart by an empty line
RECURSIVE SampleText(_)
SampleText(es) ==
    IF es = <<>> THEN <<>>
    ELSE CommentLine(es[1]) \o <<"\n">> \o ExternalKey(es[1]) \o <<"=", "\n">>
         \o (IF Len(es) = 1 THEN <<>> ELSE <<"\n">> \o SampleText(Tail(es)))

\* C21: what generateEnvSample returns for a schema and a prefix is, for each
\* stored Field in schema order and for no ephemeral or derived entry, a
\* comment line and a `KEY=` line, KEY being the prefix and the override or
\* the case-transformed schema key; the comment gives the default of a field
\* that has one and is `(required)` otherwise; and a load of the same schema
\* with the same prefix that got through its lookups asked its environment
\* for each of these keys.
C21_EnvSample ==
    /\ sample.returned => sample.text = SampleText(StoredFields)
    /\ pc \in {"pass3", "done"} =>
         \A i \in 1..Len(StoredFields) :
            ExternalKey(StoredFields[i]) \in guards[envSource].hasBeenRead

\* C21 witness: for a schema with a derived entry, the stored field a with
\* the default 7 and the ephemeral dB, and the prefix P_, the sample is the
\* two lines of a, and load had looked a up as P_A.
C21_Witness ==
    /\ sample.returned
    /\ pc = "done"
    /\ Len(schema) >= 3
    /\ schema[1].tag = "Derived"
    /\ \E i, j \in 1..Len(schema) :
        /\ schema[i] = FieldEntry(<<"a">>, "Field", WithDefault("number", Num(7)))
        /\ schema[j].tag = "Ephemeral"
    /\ options.envPrefix = <<"P", "_">>
    /\ sample.text = <<"#", " ", "(", "d", "e", "f", "a", "u", "l", "t", ":", " ",
                       "7", ")", "\n", "P", "_", "A", "=", "\n">>
    /\ <<"P", "_", "A">> \in guards.fresh.hasBeenRead

\* the call of load that is running or over is the call that ran first, made
\* again after other calls, and it is given an env map
SameCallAgain ==
    /\ alone.over
    /\ options = alone.options
    /\ options.env.present

\* C22: a call of load that is given an env map ends as the same call ended
\* when it ran first, with the same record or the same error, whatever calls
\* of load ran in between, with other env maps, on the process environment
\* or on a shared guard; a call starts with no record of stored or ephemeral
\* values and no file values of the call before, and the memo and the
\* in-progress stack of expandEnvMap are empty when it is entered.
C22_CallsShareNothing ==
    /\ []((SameCallAgain /\ pc \in {"done", "failed"}) =>
            /\ result = alone.returned
            /\ error = alone.thrown)
    /\ [](pc \in {"start", "interpolate"} =>
            /\ regulars = <<>> /\ ephemerals = <<>> /\ deriveds = <<>>
            /\ ctx = <<>> /\ fileValues = <<>>)
    /\ [][(pc = "interpolate" /\ pc' = "expand") =>
            resolved' = <<>> /\ resolving' = <<>> /\ frames' = <<>>]_vars

\* C22 witness: the call with the env map that holds D_B = 3 and with
\* interpolation returned a = 3 again, as when it ran first, after a call on
\* the shared custom guard had expanded the same file with D_B = 2.
C22_Witness ==
    /\ SameCallAgain
    /\ ~options.environment
    /\ pc = "done"
    /\ interpolateEnabled
    /\ options.env.map = (<<"D", "_", "B">> :> Str(<<"3">>))
    /\ guards.custom.hasBeenRead # {}
    /\ result.returned
    /\ result.record[<<"a">>] = Num(3)
    /\ result = alone.returned

\* the step starts the expansion of the raw value of a file key: that key
ExpansionStarts == pc = "expand" /\ Len(frames') = Len(frames) + 1
Started == frames'[Len(frames')].key

\* the step replaces a reference by a value without expanding anything
ReplacesAtOnce ==
    /\ pc = "expand"
    /\ Len(frames') = Len(frames)
    /\ lastRef' # lastRef
    /\ lastRef'.status = "replaced"

\* the lookup policy takes name from the file
TakenFromFile(name) ==
    /\ fileHas(name)
    /\ \/ lookupPolicy \in {"file-only", "file-first"}
       \/ lookupPolicy = "env-first" /\ IsNullish(Get(envSnapshot, name))

\* C23: during one load with interpolation, the expansion of a file key's
\* raw value starts only for a key that is neither memoized nor in progress;
\* the keys in progress are the keys of the expansions that are running; an
\* expansion that ends memoizes its key, and a memoized value stays as it is
\* until the resolver returns; a reference to a memoized key that the policy
\* takes from the file is replaced by the memoized value at once.  So no
\* file value is expanded twice.
C23_ExpandedOnce ==
    /\ [][ExpansionStarts =>
            /\ Started \notin DOMAIN resolved
            /\ ~InSeq(Started, resolving)
            /\ resolving' = Append(resolving, Started)]_vars
    /\ [](pc = "expand" =>
            /\ Len(resolving) = Len(frames)
            /\ \A i \in 1..Len(frames) : resolving[i] = frames[i].key)
    /\ [][(pc = "expand" /\ Len(frames') = Len(frames) - 1) =>
            Top.key \in DOMAIN resolved']_vars
    /\ [][pc = "expand" =>
            \A k \in DOMAIN resolved :
                k \in DOMAIN resolved' /\ resolved'[k] = resolved[k]]_vars
    /\ [][(pc = "expand" /\ frames # <<>> /\ lastRef' # lastRef
           /\ HasMatch(Top.pass, Top.text, Top.pos)
           /\ NextMatch(Top.pass, Top.text, Top.pos).name \in DOMAIN resolved
           /\ TakenFromFile(NextMatch(Top.pass, Top.text, Top.pos).name)) =>
            /\ ReplacesAtOnce
            /\ lastRef'.v = resolved[lastRef'.name]]_vars

\* C23 witness: in the file A=${C}, B=$C, C=z under file-only, the reference
\* of B to C was replaced by the z memoized while A was expanded.
C23_Witness ==
    /\ pc = "expand"
    /\ lookupPolicy = "file-only"
    /\ Len(rawFileValues) = 3
    /\ rawFileValues[1] = [k |-> <<"A">>, v |-> <<"$", "{", "C", "}">>]
    /\ rawFileValues[2] = [k |-> <<"B">>, v |-> <<"$", "C">>]
    /\ rawFileValues[3] = [k |-> <<"C">>, v |-> <<"z">>]
    /\ resolved = (<<"A">> :> <<"z">>) @@ (<<"C">> :> <<"z">>)
    /\ Len(frames) = 1
    /\ Top.key = <<"B">>
    /\ lastRef.status = "replaced"
    /\ lastRef.key = <<"B">>
    /\ lastRef.name = <<"C">>
    /\ lastRef.v = <<"z">>

\* the error is one the interpolation of the file throws
IsInterpolationError(e) == IsCircular(e) \/ IsMissingReference(e)

\* no schema entry has been looked up
NothingLookedUp ==
    /\ coerceCalls = <<>>
    /\ guards[envSource].hasBeenRead = {}
    /\ regulars = <<>>
    /\ ephemerals = <<>>

\* some file key holds, as written, a reference to a name that has no value
\* under the lookup policy
UnresolvedWritten ==
    \E i \in 1..Len(rawFileValues) :
        \E n \in WrittenNames(rawFileValues[i].k) : SourceOf(n) = "missing"

\* what holds of the order of expansion and lookups, and of a reference
\* without a value: while the file is expanded no schema entry has been
\* looked up; when the first is looked up, every file key is expanded and
\* memoized; an error of the interpolation leaves every schema entry
\* unread; and with a reference without a value under missing = 'error' in
\* any file key, load fails with an error of the interpolation
ExpandedFirst ==
    /\ (pc \in {"interpolate", "expand"}) => NothingLookedUp
    /\ (interpolateEnabled /\ pc \in {"pass1", "pass2", "pass3", "done"}) =>
          \A i \in 1..Len(rawFileValues) :
              /\ rawFileValues[i].k \in DOMAIN resolved
              /\ rawFileValues[i].k \in DOMAIN fileValues
              /\ fileValues[rawFileValues[i].k] = resolved[rawFileValues[i].k]
    /\ IsInterpolationError(error) => (pc = "failed" /\ NothingLookedUp)
    /\ (interpolateEnabled /\ missingPolicy = "error" /\ UnresolvedWritten
        /\ PastExpansion) =>
          (pc = "failed" /\ IsInterpolationError(error))

\* C24 as stated: with interpolation enabled every file key is expanded
\* before any schema entry is looked up; a reference without a value under
\* missing = 'error', or a cycle written in the file, in any file key fails
\* the load with the error of the interpolation, whether or not the schema
\* uses the key and whether or not the environment holds the schema's
\* values, and before any schema entry is read.
C24_AnyCycleFails ==
    /\ ExpandedFirst
    /\ (interpolateEnabled /\ WrittenCycle /\ PastExpansion) =>
          (pc = "failed" /\ IsInterpolationError(error))

\* C24 amended: as C24, for a cycle whose references the lookup policy takes
\* from the file; a cycle through a name that the policy takes from the
\* environment is not followed and does not fail the load.
C24_FollowedCycleFails ==
    /\ ExpandedFirst
    /\ (interpolateEnabled /\ FollowedCycle /\ PastExpansion) =>
          (pc = "failed" /\ IsInterpolationError(error))

\* C24 witness: with the file B=$A, A=$B under file-first and A = 1 in the
\* environment, which is the value of the one schema entry, load failed
\* with the circular reference error before A was looked up.
C24_Witness ==
    /\ pc = "failed"
    /\ lookupPolicy = "file-first"
    /\ Get(guards[envSource].map, <<"A">>) = Str(<<"1">>)
    /\ Len(rawFileValues) = 2
    /\ rawFileValues[1] = [k |-> <<"B">>, v |-> <<"$", "A">>]
    /\ rawFileValues[2] = [k |-> <<"A">>, v |-> <<"$", "B">>]
    /\ IsCircular(error)
    /\ NothingLookedUp

\* the environment the field lookups of this load read holds a value for name
LookupHolds(name) ==
    /\ name \in DOMAIN guards[envSource].map
    /\ guards[envSource].map[name].t = "str"

\* C25: under a lookup policy that asks the environment first, a reference
\* to a name that the environment of the field lookups holds is replaced by
\* the value held there: with the environment option, by the value the
\* guard passed holds for the name, not by that of the env map or of the
\* process environment.
C25_SameEnvironment ==
    (/\ pc \in {"expand", "pass1", "pass2", "pass3", "done"}
     /\ lookupPolicy = "env-first"
     /\ lastRef.status = "replaced"
     /\ LookupHolds(lastRef.name)) =>
        lastRef.v = guards[envSource].map[lastRef.name].s

\* C26: the text put in place of a reference is the value of the name as it
\* is and is not scanned again: a file value that is one reference, written
\* as $NAME or as ${NAME}, expands to the value of NAME, which is the value
\* the environment holds for it, or the expanded value of the file key NAME;
\* and load does not fail over a name that only the value put in holds.
C26_InsertedVerbatim ==
    \A i \in 1..Len(rawFileValues) :
        LET k == rawFileValues[i].k
            name == RefName(k)
        IN (interpolateEnabled /\ SingleRef(k)) =>
            /\ (k \in DOMAIN resolved /\ SourceOf(name) = "env") =>
                  resolved[k] = SnapshotString(name)
            /\ (k \in DOMAIN resolved /\ SourceOf(name) = "file"
                /\ name \in DOMAIN resolved) =>
                  resolved[k] = resolved[name]
            /\ (pc = "failed" /\ lastRef.status = "threw" /\ lastRef.key = k) =>
                  lastRef.name = name

\* C27: a key that get was called for on the exported guard keeps the value
\* that call returned: get returns the value the guard holds and puts the
\* key in the read set, no key leaves the read set, and no step, be it a
\* get, set, delete or has on any key or a step of a load, changes the value
\* of a key of the read set; so every later get of the key returns the same.
\* A set or delete that throws leaves the values and the read set as they
\* were.
C27_ReadValueStays ==
    /\ [][Calls("get") =>
            /\ guardCall'.returned = Get(guards.global.map, guardCall'.key)
            /\ guardCall'.key \in guards'.global.hasBeenRead]_vars
    /\ [][/\ guards.global.hasBeenRead \subseteq guards'.global.hasBeenRead
          /\ \A k \in guards.global.hasBeenRead :
                Get(guards'.global.map, k) = Get(guards.global.map, k)]_vars
    /\ [][((Calls("set") \/ Calls("delete")) /\ guardCall'.thrown # NoError) =>
            guards'.global = guards.global]_vars
    /\ [](guardCall.op = "get" =>
            guardCall.returned = Get(guards.global.map, guardCall.key))

\* C27 witness: A was set to 5 before it was read; after a get, a delete of
\* A was refused, and the guard still holds 5 for A.
C27_Witness ==
    /\ guardCall.op = "delete"
    /\ guardCall.key = <<"A">>
    /\ guardCall.thrown = AlreadyRead("delete", <<"A">>)
    /\ <<"A">> \in guards.global.hasBeenRead
    /\ Get(guards.global.map, <<"A">>) = Str(<<"5">>)

\* the keys of the file
KeysOfFile == {rawFileValues[i].k : i \in 1..Len(rawFileValues)}

\* C28: the resolver, once entered, comes to an end: it returns, and the
\* passes over the schema start, or load fails.  While it runs, no key is
\* twice in the in-progress stack, and the stack and the depth of the
\* recursion are at most the number of file keys.  When it returns, the
\* stack is empty and the map returned has the keys of the file and no
\* other; when it throws, the error is a ConfigError.
C28_ResolverTerminates ==
    /\ (pc = "expand") ~> (pc \in {"pass1", "failed"})
    /\ [](pc = "expand" =>
            /\ \A i, j \in 1..Len(resolving) : i # j => resolving[i] # resolving[j]
            /\ Len(resolving) <= Len(rawFileValues)
            /\ Len(frames) <= Len(rawFileValues))
    /\ [][(pc = "expand" /\ pc' = "pass1") =>
            /\ resolving = <<>> /\ resolving' = <<>>
            /\ frames' = <<>>
            /\ DOMAIN fileValues' = KeysOfFile]_vars
    /\ [][(pc = "expand" /\ pc' = "failed") =>
            /\ error'.name = "ConfigError"
            /\ ~result'.returned]_vars

\* C28 witness: for the file A=$B, B=$C, C=z under file-only the resolver
\* returned the three keys, each with the value z, with an empty stack.
C28_Witness ==
    /\ pc = "pass1"
    /\ interpolateEnabled
    /\ lookupPolicy = "file-only"
    /\ rawFileValues = << [k |-> <<"A">>, v |-> <<"$", "B">>],
                          [k |-> <<"B">>, v |-> <<"$", "C">>],
                          [k |-> <<"C">>, v |-> <<"z">>] >>
    /\ resolving = <<>>
    /\ fileValues = (<<"A">> :> <<"z">>) @@ (<<"B">> :> <<"z">>) @@ (<<"C">> :> <<"z">>)

\* the environment load reads holds the empty string for k
EnvEmpty(k) == EnvHolds(k) /\ EnvString(k) = <<>>

\* the environment holds no value for k and the file map holds the empty
\* string
FileEmpty(k) == ~EnvHolds(k) /\ FileHolds(k) /\ fileValues[k] = <<>>

\* the file whose only line that gives a value is KEY=, white space and
\* empty quotes apart, is read as the map of KEY to the empty string
KeyOnlyLines == { <<"A", "=">>, <<" ", "A", " ", "=", " ">>, <<"A", "=", "\"", "\"">> }
ReadAsEmpty ==
    \A file \in FileTexts :
        (/\ file.exists
         /\ \A i \in 1..Len(file.text) :
                file.text[i] \in KeyOnlyLines \cup {<<"A">>, <<"#", "A", "=", "1">>}
         /\ \E i \in 1..Len(file.text) : file.text[i] \in KeyOnlyLines)
        => readEnvFile(file) = <<[k |-> <<"A">>, v |-> <<>>]>>

\* C29: the line KEY= is read from the file as the empty string.  When load
\* reads a stored or ephemeral entry whose external key is the empty string
\* in the environment, or is not in the environment and is the empty string
\* in the file map, coerce is called on the empty string and what it returns
\* is the entry's value: load does not fail for a missing value and takes
\* neither the default nor undefined, with or without skipMissing.  The empty
\* environment value is the one read also when the file holds another value
\* for the key.
C29_EmptyIsPresent ==
    /\ [](ReadAsEmpty)
    /\ [][Reading =>
            LET e == schema[idx]
                k == ExternalKey(e)
                c == Coerce(e.coerce, <<>>)
            IN (EnvEmpty(k) \/ FileEmpty(k)) =>
                  /\ coerceCalls' = Append(coerceCalls,
                                           [key |-> e.key, envKey |-> k, raw |-> <<>>])
                  /\ ~c.threw =>
                        /\ pc' # "failed"
                        /\ e.key \in DOMAIN StoredNext(e)
                        /\ StoredNext(e)[e.key] = c.value
       ]_vars

\* C29 witness: the file holds A=3 and the environment A as the empty
\* string; for a number field with the default 7 and skipMissing, load
\* returned 0, which is Number('').
C29_Witness ==
    /\ pc = "done"
    /\ options.skipMissing
    /\ schema = <<FieldEntry(<<"a">>, "Field", WithDefault("number", Num(7)))>>
    /\ rawFileValues = <<[k |-> <<"A">>, v |-> <<"3">>]>>
    /\ EnvEmpty(<<"A">>)
    /\ result.returned
    /\ result.record[<<"a">>] = Num(0)

\* C30: when load, called with the same environment and policies on the
\* file in another order, is over, it failed if and only if the first call
\* failed, and when both returned, expandEnvMap returned the same value for
\* each key in both.
C30_OrderFree ==
    [](alone.over /\ pc \in {"done", "failed"} =>
          /\ (pc = "done") = alone.returned.returned
          /\ pc = "done" => fileValues = alone.returned.record)

\* C30 witness: the file A=$B, B=$C, C=z was read under file-only in that
\* order and then with C first; both calls returned, with z for each key.
C30_Witness ==
    /\ alone.over
    /\ pc = "done"
    /\ lookupPolicy = "file-only"
    /\ interpolateEnabled
    /\ rawFileValues = << [k |-> <<"C">>, v |-> <<"z">>],
                          [k |-> <<"B">>, v |-> <<"$", "C">>],
                          [k |-> <<"A">>, v |-> <<"$", "B">>] >>
    /\ alone.returned.returned
    /\ fileValues = (<<"A">> :> <<"z">>) @@ (<<"B">> :> <<"z">>) @@ (<<"C">> :> <<"z">>)

====
